---- MODULE Spec2Model ----
(***************************************************************************)
(* Model of the navigation / selection engine of `dimensions`              *)
(* (src/src/app.rs, src/src/main.rs) together with the part of tmux it     *)
(* talks to through src/src/tmux.rs.                                       *)
(*                                                                         *)
(* Option<usize> is an integer with NoTab (-1) for None; Option<String>    *)
(* is a string with NoName ("none") for None.  Every key handler is one    *)
(* atomic action, and a handler of Searching mode includes the frame that   *)
(* run_app draws before it reads the next key.  Strings are TLA+ strings:  *)
(* push is \o, pop is SubSeq.  Jump mode is not in src/src/app.rs and is   *)
(* not entered.                                                            *)
(***************************************************************************)
EXTENDS Integers, Sequences, FiniteSets, TLC

\* ---------------------------------------------------------------- bounds
MaxDims == 2
MaxTabs == 2
MaxWindows == 2
MaxFailures == 1
MaxExternal == 1
MaxRuns == 2
MaxStartWindows == 3
MaxStartTabs == 2

\* ---------------------------------------------------------------- values
NoTab == -1
NoName == "none"
NoDir == "none"
DimNames == {"a", "b"}
TabInputs == {[name |-> "x", command |-> "none"], [name |-> "y", command |-> "make"]}
DirInputs == {"", "/bad"}
CurrentDir == "/cwd"
DefaultWindowName == "sh"

\* ------------------------------------------------------------- variables
VARIABLES
    config,                 \* App.config.dimensions: Seq of Dimension
    disk,                   \* the persisted document (config.json)
    selected_dimension,
    selected_tab,
    input_mode,
    pending_dimension_name,
    input_buffer,
    completion_candidates,
    completion_index,
    completion_base,
    cycle_history,          \* history: <<buffer, cursor>> after each forward cycle step in a row
    search_query,
    search_results,
    search_selected_index,
    last_computed_query,
    fuzzy,                  \* the scores SkimMatcherV2 gave, by name, in the last computation
    pre_search_dimension,
    pre_search_tab,
    message,
    update_message,
    update_rx,              \* App.update_rx is Some
    update_tx,              \* the version check: "running", a sent message, "taken" or "dropped"
    should_quit,
    should_attach,
    should_select_window,
    should_detach,
    current_session,
    current_window,
    tmux,                   \* session name -> window list (<<>> = no session)
    inside,                 \* $TMUX is set for this process
    client,                 \* session the tmux client is attached to
    clientWin,              \* that client's current window index
    pc,                     \* "running" | "exited"
    failures,               \* injected tmux / save failures so far
    externals,              \* outside changes to tmux so far
    runs,                   \* program runs so far
    cmds                    \* tmux commands the last handler issued, in order

vars == <<config, disk, selected_dimension, selected_tab, input_mode,
          pending_dimension_name, input_buffer, completion_candidates,
          completion_index, completion_base, cycle_history, search_query, search_results,
          search_selected_index, last_computed_query, fuzzy,
          pre_search_dimension, pre_search_tab,
          message, update_message, update_rx, update_tx, should_quit, should_attach, should_select_window,
          should_detach, current_session, current_window, tmux, inside,
          client, clientWin, pc, failures, externals, runs, cmds>>

appSel == <<selected_dimension, selected_tab>>
appSearch == <<search_query, search_results, search_selected_index,
               last_computed_query, fuzzy, pre_search_dimension, pre_search_tab>>
appCompletion == <<completion_candidates, completion_index, completion_base, cycle_history>>
appText == <<input_buffer, completion_candidates, completion_index, completion_base, cycle_history>>
appUpdate == <<update_message, update_rx, update_tx>>
appExit == <<should_quit, should_attach, should_select_window, should_detach>>
appEnv == <<current_session, current_window, inside>>
tmuxVars == <<tmux, client, clientWin>>

\* --------------------------------------------------------------- helpers
SeqRemove(s, i) == [j \in 1..(Len(s) - 1) |-> IF j < i THEN s[j] ELSE s[j + 1]]

\* Position (1-based) of the first element satisfying a name test, 0 if none.
PosOfName(s, n) ==
    IF \E i \in 1..Len(s) : s[i].name = n
    THEN CHOOSE i \in 1..Len(s) : s[i].name = n /\ \A j \in 1..(i - 1) : s[j].name # n
    ELSE 0

PosOfIdx(ws, k) ==
    IF \E i \in 1..Len(ws) : ws[i].idx = k
    THEN CHOOSE i \in 1..Len(ws) : ws[i].idx = k /\ \A j \in 1..(i - 1) : ws[j].idx # k
    ELSE 0

\* ------------------------------------------------------ dimension.rs
Tab(name, command, working_dir) ==
    [name |-> name, command |-> command, working_dir |-> working_dir]

NewDimension(name, base_dir) ==
    [name |-> name, configured_tabs |-> <<>>, base_dir |-> base_dir]

\* An add_tab that puts the new template in front of the others.
DimAddTabFront(d, tab) == [d EXCEPT !.configured_tabs = <<tab>> \o @]

\* Dimension::add_tab
DimAddTab(d, tab) == [d EXCEPT !.configured_tabs = Append(@, tab)]

\* Dimension::remove_tab with a 0-based index; out of range leaves d as is.
DimRemoveTab(d, index) ==
    IF index >= 0 /\ index < Len(d.configured_tabs)
    THEN [d EXCEPT !.configured_tabs = SeqRemove(@, index + 1)]
    ELSE d

GetDimension(cfg, name) == PosOfName(cfg, name)

\* An add_dimension that puts the new dimension first.
AddDimensionFront(cfg, d) == <<d>> \o cfg

AddDimension(cfg, d) == Append(cfg, d)

\* A remove_dimension that drops the first dimension whatever its name.
RemoveFirstDimension(cfg, name) == IF cfg = <<>> THEN cfg ELSE Tail(cfg)

\* DimensionConfig::remove_dimension
RemoveDimension(cfg, name) ==
    IF PosOfName(cfg, name) = 0 THEN cfg ELSE SeqRemove(cfg, PosOfName(cfg, name))

\* ------------------------------------------------------------ tmux.rs
Window(i, n) == [idx |-> i, name |-> n]

SessionExists(t, s) == s \in DOMAIN t /\ t[s] # <<>>

ListWindows(t, s) == IF SessionExists(t, s) THEN t[s] ELSE <<>>

WinIdxs(ws) == {ws[i].idx : i \in 1..Len(ws)}

\* tmux gives a new window the lowest unused index.
FreeIdx(ws) == CHOOSE k \in 0..Len(ws) : k \notin WinIdxs(ws) /\ \A j \in 0..(k - 1) : j \in WinIdxs(ws)

\* Insert keeping the list ordered by window index, as list-windows prints it.
InsertWindow(ws, w) ==
    LET before == SelectSeq(ws, LAMBDA x : x.idx < w.idx)
        after == SelectSeq(ws, LAMBDA x : x.idx > w.idx)
    IN before \o <<w>> \o after

CreateSession(t, s) == [t EXCEPT ![s] = <<Window(0, DefaultWindowName)>>]

KillSession(t, s) == [t EXCEPT ![s] = <<>>]

NewWindow(t, s, n) == [t EXCEPT ![s] = InsertWindow(@, Window(FreeIdx(@), n))]

RenameWindow(t, s, i, n) ==
    [t EXCEPT ![s] = [j \in 1..Len(@) |-> IF @[j].idx = i THEN Window(i, n) ELSE @[j]]]

\* Killing the last window of a session destroys the session.
KillWindow(t, s, i) == [t EXCEPT ![s] = SelectSeq(@, LAMBDA w : w.idx # i)]

\* Whether tmux accepts the command in state t.
CmdOk(t, c) ==
    CASE c.c = "new-session" -> ~SessionExists(t, c.s)
      [] c.c = "kill-session" -> SessionExists(t, c.s)
      [] c.c = "new-window" -> SessionExists(t, c.s)
      [] c.c \in {"rename-window", "send-keys", "kill-window"} -> c.i \in WinIdxs(ListWindows(t, c.s))
      [] OTHER -> TRUE

CmdApply(t, c) ==
    CASE c.c = "new-session" -> CreateSession(t, c.s)
      [] c.c = "kill-session" -> KillSession(t, c.s)
      [] c.c = "new-window" -> NewWindow(t, c.s, c.n)
      [] c.c = "rename-window" -> RenameWindow(t, c.s, c.i, c.n)
      [] c.c = "kill-window" -> KillWindow(t, c.s, c.i)
      [] OTHER -> t

Cmd(c, s, i, n) == [c |-> c, s |-> s, i |-> i, n |-> n]

\* Where the client ends up after the tmux state changed to t: it stays on
\* its window if that still exists, moves to another window of its session
\* if not, and to another session (or nowhere) if its session is gone.
ClientPlaces(t, cl, cw) ==
    IF cl = NoName THEN {<<NoName, NoTab>>}
    ELSE IF SessionExists(t, cl)
         THEN IF cw \in WinIdxs(t[cl]) THEN {<<cl, cw>>}
              ELSE {<<cl, k>> : k \in WinIdxs(t[cl])}
         ELSE {<<NoName, NoTab>>} \cup
              UNION {{<<s, k>> : k \in WinIdxs(t[s])} : s \in {x \in DOMAIN t : SessionExists(t, x)}}

\* ------------------------------------------------------------------ Init
\* The first run: no dimension configured, no tmux session, started outside tmux.
InitApp ==
    /\ config = <<>>
    /\ disk = <<>>
    /\ selected_dimension = 0
    /\ selected_tab = NoTab
    /\ input_mode = "Normal"
    /\ pending_dimension_name = NoName
    /\ input_buffer = ""
    /\ completion_candidates = <<>>
    /\ completion_index = 0
    /\ completion_base = ""
    /\ cycle_history = <<>>
    /\ search_query = ""
    /\ search_results = <<>>
    /\ search_selected_index = 0
    /\ last_computed_query = ""
    /\ fuzzy = <<>>
    /\ pre_search_dimension = 0
    /\ pre_search_tab = NoTab
    /\ message = "none"
    /\ update_message = NoName
    /\ update_rx = TRUE
    /\ update_tx = "running"
    /\ should_quit = FALSE
    /\ should_attach = NoName
    /\ should_select_window = NoTab
    /\ should_detach = FALSE
    /\ current_session = NoName
    /\ current_window = NoTab
    /\ tmux = [s \in DimNames |-> <<>>]
    /\ inside = FALSE
    /\ client = NoName
    /\ clientWin = NoTab
    /\ pc = "running"
    /\ runs = 1
    /\ cmds = <<>>

\* tmux commands and saves may fail, and somebody else may close windows.
Init == InitApp /\ failures = 0 /\ externals = 0

\* tmux and the file system never fail and nobody else touches tmux.
InitReliable == InitApp /\ failures = MaxFailures /\ externals = MaxExternal

\* tmux commands and saves may fail, but nobody else touches tmux.
InitOneRun == InitApp /\ failures = 0 /\ externals = MaxExternal

Running == pc = "running" /\ ~should_quit

budget == <<failures, externals, runs>>

\* An error that sets no message.
NoErrorMessage(e) == "none"

\* run_app / handle_normal_mode: format!("Error: {}", e)
ErrorMessage(e) == "Error: " \o e

\* An injected failure is charged to the failure budget.
Charge(failed) ==
    /\ failed => failures < MaxFailures
    /\ failures' = IF failed THEN failures + 1 ELSE failures
    /\ UNCHANGED <<externals, runs>>

CurDim == IF selected_dimension < Len(config) THEN config[selected_dimension + 1] ELSE NewDimension(NoName, NoDir)
HasCurDim == selected_dimension < Len(config)

\* ------------------------------------------------------------ navigation
\* A next_dimension that stops at the last dimension.
NextDimensionNoWrap(len, sd) == IF sd + 1 < len THEN sd + 1 ELSE sd

\* App::next_dimension / App::previous_dimension on a list of len > 0 dimensions.
NextDimensionOf(len, sd) == (sd + 1) % len

PreviousDimensionOf(len, sd) == IF sd = 0 THEN len - 1 ELSE sd - 1

next_dimension ==
    /\ Running /\ input_mode = "Normal"
    /\ IF Len(config) # 0
       THEN /\ selected_dimension' = NextDimensionOf(Len(config), selected_dimension)
            /\ selected_tab' = NoTab
       ELSE UNCHANGED appSel
    /\ cmds' = <<>>
    /\ UNCHANGED <<config, disk, input_mode, pending_dimension_name, appSearch, appText, appUpdate,
                   message, appExit, appEnv, tmuxVars, pc, budget>>

previous_dimension ==
    /\ Running /\ input_mode = "Normal"
    /\ IF Len(config) # 0
       THEN /\ selected_dimension' = PreviousDimensionOf(Len(config), selected_dimension)
            /\ selected_tab' = NoTab
       ELSE UNCHANGED appSel
    /\ cmds' = <<>>
    /\ UNCHANGED <<config, disk, input_mode, pending_dimension_name, appSearch, appText, appUpdate,
                   message, appExit, appEnv, tmuxVars, pc, budget>>

\* App::next_tab: the new selected_tab.
NextTabOf(cfg, t, sd, st) ==
    IF sd >= Len(cfg) THEN st
    ELSE LET d == cfg[sd + 1]
             windows == ListWindows(t, d.name)
             tab_count == Len(d.configured_tabs)
         IN IF SessionExists(t, d.name)
            THEN IF windows = <<>> THEN NoTab
                 ELSE IF st = NoTab THEN windows[1].idx
                 ELSE LET p == PosOfIdx(windows, st)
                          pos == IF p = 0 THEN 0 ELSE p - 1
                      IN windows[((pos + 1) % Len(windows)) + 1].idx
            ELSE IF tab_count = 0 THEN NoTab
                 ELSE IF st = NoTab THEN 0
                 ELSE (st + 1) % tab_count

\* A previous_tab that wraps from the first tab to the last one.
PreviousTabWraps(cfg, t, sd, st) ==
    IF sd >= Len(cfg) THEN st
    ELSE LET d == cfg[sd + 1]
             windows == ListWindows(t, d.name)
             tab_count == Len(d.configured_tabs)
         IN IF SessionExists(t, d.name)
            THEN IF windows = <<>> THEN NoTab
                 ELSE IF st = NoTab THEN windows[Len(windows)].idx
                 ELSE LET p == PosOfIdx(windows, st)
                          pos == IF p = 0 THEN 0 ELSE p - 1
                      IN IF pos = 0 THEN windows[Len(windows)].idx ELSE windows[pos].idx
            ELSE IF tab_count = 0 THEN NoTab
                 ELSE IF st = NoTab \/ st = 0 THEN tab_count - 1
                 ELSE st - 1

\* App::previous_tab: the new selected_tab.
PreviousTabOf(cfg, t, sd, st) ==
    IF sd >= Len(cfg) THEN st
    ELSE LET d == cfg[sd + 1]
             windows == ListWindows(t, d.name)
             tab_count == Len(d.configured_tabs)
         IN IF SessionExists(t, d.name)
            THEN IF windows = <<>> THEN NoTab
                 ELSE IF st = NoTab THEN windows[Len(windows)].idx
                 ELSE LET p == PosOfIdx(windows, st)
                          pos == IF p = 0 THEN 0 ELSE p - 1
                      IN IF pos = 0 THEN NoTab ELSE windows[pos].idx
            ELSE IF tab_count = 0 THEN NoTab
                 ELSE IF st = NoTab THEN tab_count - 1
                 ELSE IF st = 0 THEN NoTab
                 ELSE st - 1

TabCmds(cfg, t, sd) ==
    IF sd >= Len(cfg) THEN <<>>
    ELSE IF SessionExists(t, cfg[sd + 1].name) THEN <<"has-session", "list-windows">>
    ELSE <<"has-session">>

next_tab ==
    /\ Running /\ input_mode = "Normal"
    /\ selected_tab' = NextTabOf(config, tmux, selected_dimension, selected_tab)
    /\ cmds' = TabCmds(config, tmux, selected_dimension)
    /\ UNCHANGED <<config, disk, selected_dimension, input_mode, pending_dimension_name,
                   appSearch, appText, appUpdate, message, appExit, appEnv, tmuxVars, pc, budget>>

previous_tab ==
    /\ Running /\ input_mode = "Normal"
    /\ selected_tab' = PreviousTabOf(config, tmux, selected_dimension, selected_tab)
    /\ cmds' = TabCmds(config, tmux, selected_dimension)
    /\ UNCHANGED <<config, disk, selected_dimension, input_mode, pending_dimension_name,
                   appSearch, appText, appUpdate, message, appExit, appEnv, tmuxVars, pc, budget>>

\* A switch path that leaves the detach request of the quit path set.
quit_with_detach == [should_quit |-> TRUE, should_detach |-> TRUE]

\* ------------------------------------------------------------ exit flags
\* App::quit_without_detach
quit_without_detach == [should_quit |-> TRUE, should_detach |-> FALSE]

quit ==
    /\ Running /\ input_mode = "Normal"
    /\ should_quit' = TRUE
    /\ should_detach' = TRUE
    /\ cmds' = <<>>
    /\ UNCHANGED <<config, disk, appSel, input_mode, pending_dimension_name, appSearch, appText, appUpdate,
                   message, should_attach, should_select_window, appEnv, tmuxVars, pc, budget>>

close_popup ==
    /\ Running /\ input_mode = "Normal"
    /\ should_quit' = TRUE
    /\ should_detach' = FALSE
    /\ cmds' = <<>>
    /\ UNCHANGED <<config, disk, appSel, input_mode, pending_dimension_name, appSearch, appText, appUpdate,
                   message, should_attach, should_select_window, appEnv, tmuxVars, pc, budget>>

\* ----------------------------------------------------------- mode entry
\* An edit that leaves a completion cycle as it is.
KeepCompletion ==
    UNCHANGED <<completion_candidates, completion_base, cycle_history, completion_index>>

\* App::clear_completion_state
clear_completion_state ==
    /\ completion_candidates' = <<>>
    /\ completion_base' = ""
    /\ cycle_history' = <<>>
    /\ completion_index' = 0

\* A cancel_input that leaves the text typed in the buffer.
KeepText == UNCHANGED input_buffer /\ clear_completion_state

\* What App::cancel_input does to the input buffer and the completion state.
ClearText == input_buffer' = "" /\ clear_completion_state

start_create_dimension ==
    /\ Running /\ input_mode = "Normal"
    /\ Len(config) < MaxDims
    /\ input_mode' = "CreatingDimension"
    /\ input_buffer' = ""
    /\ message' = "none"
    /\ cmds' = <<>>
    /\ UNCHANGED <<config, disk, appSel, pending_dimension_name, appSearch, appCompletion, appUpdate,
                   appExit, appEnv, tmuxVars, pc, budget>>

start_add_tab ==
    /\ Running /\ input_mode = "Normal"
    /\ input_mode' = "AddingTab"
    /\ input_buffer' = ""
    /\ message' = "none"
    /\ cmds' = <<>>
    /\ UNCHANGED <<config, disk, appSel, pending_dimension_name, appSearch, appCompletion, appUpdate,
                   appExit, appEnv, tmuxVars, pc, budget>>

\* handle_normal_mode, key 'd': delete the tab if one is selected, else the dimension.
start_delete ==
    /\ Running /\ input_mode = "Normal"
    /\ input_mode' = IF selected_tab # NoTab THEN "DeletingTab" ELSE "DeletingDimension"
    /\ message' = "none"
    /\ cmds' = <<>>
    /\ UNCHANGED <<config, disk, appSel, pending_dimension_name, appSearch, appText, appUpdate,
                   appExit, appEnv, tmuxVars, pc, budget>>

\* A cancel that clears the text and the message and stays in the mode.
CancelKeepsMode ==
    /\ Running /\ input_mode # "Normal"
    /\ ClearText
    /\ message' = "none"
    /\ cmds' = <<>>
    /\ UNCHANGED <<config, disk, appSel, input_mode, pending_dimension_name, appSearch, appUpdate,
                   appExit, appEnv, tmuxVars, pc, budget>>

\* App::cancel_input on Esc (input modes) or n / Esc (delete modes).
cancel_input ==
    /\ Running /\ input_mode # "Normal"
    /\ input_mode' = "Normal"
    /\ pending_dimension_name' = NoName
    /\ ClearText
    /\ IF input_mode = "Searching"
       THEN /\ search_query' = ""
            /\ search_results' = <<>>
            /\ last_computed_query' = ""
            /\ fuzzy' = <<>>
            /\ selected_dimension' = pre_search_dimension
            /\ selected_tab' = pre_search_tab
       ELSE UNCHANGED <<appSel, search_query, search_results, last_computed_query, fuzzy>>
    /\ message' = "none"
    /\ cmds' = <<>>
    /\ UNCHANGED <<config, disk, search_selected_index, pre_search_dimension, pre_search_tab,
                   appUpdate, appExit, appEnv, tmuxVars, pc, budget>>

\* ------------------------------------------------------ create_dimension
\* A duplicate-name check that finds nothing.
DimensionNeverExists(cfg, name) == FALSE

\* The duplicate-name check of App::create_dimension.

DimensionExists(cfg, name) == GetDimension(cfg, name) # 0

\* A create_dimension that adds the dimension before it checks the name.
create_dimension_add_first(cfg, dsk, name, base_dir, saveOk) ==
    LET cfg1 == AddDimension(cfg, NewDimension(name, base_dir))
    IN IF DimensionExists(cfg, name)
       THEN [config |-> cfg1, disk |-> dsk, res |-> "err_duplicate", message |-> "unset"]
       ELSE IF saveOk
       THEN [config |-> cfg1, disk |-> cfg1, res |-> "ok", message |-> "Created"]
       ELSE [config |-> cfg1, disk |-> dsk, res |-> "err_save", message |-> "unset"]

\* App::create_dimension: the config, the document and the outcome.
create_dimension(cfg, dsk, name, base_dir, saveOk) ==
    IF DimensionExists(cfg, name)
    THEN [config |-> cfg, disk |-> dsk, res |-> "err_duplicate", message |-> "unset"]
    ELSE LET cfg1 == AddDimension(cfg, NewDimension(name, base_dir))
         IN IF saveOk
            THEN [config |-> cfg1, disk |-> cfg1, res |-> "ok", message |-> "Created"]
            ELSE [config |-> cfg1, disk |-> dsk, res |-> "err_save", message |-> "unset"]

\* ------------------------------------------------------------ strings
StartsWith(s, p) == Len(p) <= Len(s) /\ SubSeq(s, 1, Len(p)) = p

EndsWith(s, p) == Len(p) <= Len(s) /\ SubSeq(s, Len(s) - Len(p) + 1, Len(s)) = p

\* str::trim for the blank character.
RECURSIVE Trim(_)
Trim(s) ==
    IF s = "" THEN s
    ELSE IF StartsWith(s, " ") THEN Trim(SubSeq(s, 2, Len(s)))
    ELSE IF EndsWith(s, " ") THEN Trim(SubSeq(s, 1, Len(s) - 1))
    ELSE s

\* Position of the last '/' of s, 0 if there is none.
RECURSIVE LastSlash(_, _)
LastSlash(s, i) ==
    IF i = 0 THEN 0
    ELSE IF SubSeq(s, i, i) = "/" THEN i
    ELSE LastSlash(s, i - 1)

\* ----------------------------------------------------- path_completion.rs
\* The directories and the plain files of the file system.
Dirs == {"/", "/cwd", "/cwd/aa", "/cwd/ab", "/cwd/ac"}
Files == {"/cwd/f"}

\* candidates.sort(): the order of the paths above.
Alphabetical == <<"/", "/cwd", "/cwd/aa", "/cwd/ab", "/cwd/ac", "/cwd/f">>

\* A path without its trailing '/', as the file system resolves it.
RECURSIVE Resolve(_)
Resolve(path) ==
    IF Len(path) > 1 /\ EndsWith(path, "/") THEN Resolve(SubSeq(path, 1, Len(path) - 1))
    ELSE path

\* Path::join
Join(dir, name) == IF EndsWith(dir, "/") THEN dir \o name ELSE dir \o "/" \o name

\* Path::parent and Path::file_name of an absolute path that does not end in '/'.
Parent(path) ==
    IF LastSlash(path, Len(path)) <= 1 THEN "/"
    ELSE SubSeq(path, 1, LastSlash(path, Len(path)) - 1)

FileName(path) == SubSeq(path, LastSlash(path, Len(path)) + 1, Len(path))

\* PathCompleter::expand_path for inputs without '~' and '$': a relative
\* path is joined to the current directory.
expand_path(input) ==
    IF input = "" THEN "."
    ELSE IF StartsWith(input, "/") THEN input
    ELSE Join(CurrentDir, input)

\* A validation that takes every path that is not blank.
validate_nonblank(input) ==
    IF Trim(input) = "" THEN [ok |-> FALSE, path |-> NoDir, err |-> "empty"]
    ELSE [ok |-> TRUE, path |-> expand_path(input), err |-> "none"]

\* PathCompleter::validate_directory
validate_directory(input) ==
    IF Trim(input) = "" THEN [ok |-> FALSE, path |-> NoDir, err |-> "empty"]
    ELSE IF Resolve(expand_path(input)) \notin Dirs \cup Files
    THEN [ok |-> FALSE, path |-> NoDir, err |-> "missing"]
    ELSE IF Resolve(expand_path(input)) \notin Dirs
    THEN [ok |-> FALSE, path |-> NoDir, err |-> "not a directory"]
    ELSE [ok |-> TRUE, path |-> expand_path(input), err |-> "none"]

\* submit_input in CreatingDimension on the buffer text: a non-empty name is
\* staged and the buffer pre-filled with the current directory, an empty one
\* falls through to cancel_input.
SubmitName(text) ==
    /\ IF Trim(text) # ""
       THEN /\ pending_dimension_name' = Trim(text)
            /\ input_mode' = "CreatingDimensionDirectory"
            /\ input_buffer' = CurrentDir
            /\ UNCHANGED <<message, appCompletion>>
       ELSE /\ pending_dimension_name' = NoName
            /\ input_mode' = "Normal"
            /\ ClearText
            /\ message' = "none"
    /\ cmds' = <<>>
    /\ UNCHANGED <<config, disk, appSel, appSearch, appUpdate, appExit, appEnv, tmuxVars, pc, budget>>

\* The user types a name in CreatingDimension and presses Enter.
submit_name ==
    /\ Running /\ input_mode = "CreatingDimension"
    /\ \E name \in DimNames \cup {""} : SubmitName(name)

\* A staged name put back when the creation fails.
TakePendingOnSuccess(res) == IF res = "ok" THEN NoName ELSE pending_dimension_name

\* submit_input, pending_dimension_name.take(): the name is gone before
\* create_dimension runs, whatever it returns.
TakePending(res) == NoName

\* submit_input in CreatingDimensionDirectory on the buffer text, with
\* run_app's error handling: an empty text means no base directory, a text
\* that fails validation keeps the mode, the buffer and the staged name.
SubmitDirectory(text, saveOk) ==
    /\ IF Trim(text) # "" /\ ~validate_directory(Trim(text)).ok
       THEN /\ saveOk
            /\ message' = "InvalidDir"
            /\ input_buffer' = text
            /\ Charge(FALSE)
            /\ UNCHANGED <<config, disk, input_mode, pending_dimension_name, appCompletion>>
       ELSE IF pending_dimension_name = NoName
       THEN /\ saveOk
            /\ input_mode' = "Normal"
            /\ ClearText
            /\ message' = "none"
            /\ Charge(FALSE)
            /\ UNCHANGED <<config, disk, pending_dimension_name>>
       ELSE LET r == create_dimension(config, disk, pending_dimension_name,
                                      IF Trim(text) = "" THEN NoDir
                                      ELSE validate_directory(Trim(text)).path, saveOk)
            IN /\ (DimensionExists(config, pending_dimension_name) => saveOk)
               /\ config' = r.config
               /\ disk' = r.disk
               /\ Charge(r.res \in {"err_tmux", "err_save"})
               /\ pending_dimension_name' = TakePending(r.res)
               /\ input_mode' = "Normal"
               /\ ClearText
               /\ message' = IF r.res = "ok" THEN "none" ELSE ErrorMessage(r.res)
    /\ cmds' = <<>>
    /\ UNCHANGED <<appSel, appSearch, appUpdate, appExit, appEnv, tmuxVars, pc>>

\* The user types a directory in CreatingDimensionDirectory and presses
\* Enter: nothing (no base directory) or a path that does not exist.
submit_directory ==
    /\ Running /\ input_mode = "CreatingDimensionDirectory"
    /\ \E dir \in DirInputs, saveOk \in BOOLEAN : SubmitDirectory(dir, saveOk)


\* ------------------------------------------------------ delete_dimension
\* The selection adjustment at the end of App::delete_dimension.
ClampSelected(sd, len) == IF sd >= len /\ sd > 0 THEN sd - 1 ELSE sd

\* App::delete_dimension(name); fail is "none", "tmux" (kill-session fails)
\* or "save".  Yields every field the function can touch.
delete_dimension(cfg, dsk, t, sd, st, name, fail) ==
    LET cfg1 == RemoveDimension(cfg, name)
        live == SessionExists(t, name)
        t1 == IF live THEN KillSession(t, name) ELSE t
        same == [config |-> cfg, disk |-> dsk, tmux |-> t, selected_dimension |-> sd,
                 selected_tab |-> st, res |-> "ok", cmds |-> <<>>]
    IN IF GetDimension(cfg, name) = 0
       THEN [same EXCEPT !.res = "err_notfound"]
       ELSE IF live /\ fail = "tmux"
       THEN [same EXCEPT !.config = cfg1, !.res = "err_tmux",
                         !.cmds = <<"has-session", "kill-session">>]
       ELSE IF fail = "save"
       THEN [same EXCEPT !.config = cfg1, !.tmux = t1, !.res = "err_save",
                         !.cmds = IF live THEN <<"has-session", "kill-session">>
                                  ELSE <<"has-session">>]
       ELSE [config |-> cfg1, disk |-> cfg1, tmux |-> t1,
             selected_dimension |-> ClampSelected(sd, Len(cfg1)),
             selected_tab |-> NoTab, res |-> "ok",
             cmds |-> IF live THEN <<"has-session", "kill-session">> ELSE <<"has-session">>]

\* handle_delete_mode 'y' in DeletingDimension: submit_input, then run_app's
\* error handling (cancel_input and an error message).
confirm_delete_dimension ==
    /\ Running /\ input_mode = "DeletingDimension"
    /\ IF HasCurDim
       THEN \E fail \in {"none", "tmux", "save"} :
              LET r == delete_dimension(config, disk, tmux, selected_dimension,
                                        selected_tab, CurDim.name, fail)
              IN /\ (fail = "tmux" => SessionExists(tmux, CurDim.name))
                 /\ config' = r.config
                 /\ disk' = r.disk
                 /\ tmux' = r.tmux
                 /\ selected_dimension' = r.selected_dimension
                 /\ selected_tab' = r.selected_tab
                 /\ \E place \in ClientPlaces(r.tmux, client, clientWin) :
                      client' = place[1] /\ clientWin' = place[2]
                 /\ cmds' = r.cmds
                 /\ Charge(r.res \in {"err_tmux", "err_save"})
                 /\ message' = IF r.res = "ok" THEN "none" ELSE ErrorMessage(r.res)
       ELSE /\ cmds' = <<>>
            /\ message' = "none"
            /\ Charge(FALSE)
            /\ UNCHANGED <<config, disk, appSel, tmuxVars>>
    /\ input_mode' = "Normal"
    /\ pending_dimension_name' = NoName
    /\ ClearText
    /\ UNCHANGED <<appSearch, appUpdate, appExit, appEnv, pc>>

\* ------------------------------------------ add_tab_to_current_dimension
\* App::add_tab_to_current_dimension for an existing selected dimension.
add_tab_to_current_dimension(cfg, dsk, t, sd, name, command, fail) ==
    LET d == cfg[sd + 1]
        working_dir == IF d.base_dir # NoDir THEN d.base_dir ELSE CurrentDir
        cfg1 == [cfg EXCEPT ![sd + 1] = DimAddTab(d, Tab(name, command, working_dir))]
        live == SessionExists(t, d.name)
        t1 == IF live THEN NewWindow(t, d.name, name) ELSE t
        q == IF live THEN <<"has-session", "new-window">> ELSE <<"has-session">>
    IN IF live /\ fail = "tmux"
       THEN [config |-> cfg1, disk |-> dsk, tmux |-> t, res |-> "err_tmux", cmds |-> q]
       ELSE IF fail = "save"
       THEN [config |-> cfg1, disk |-> dsk, tmux |-> t1, res |-> "err_save", cmds |-> q]
       ELSE [config |-> cfg1, disk |-> cfg1, tmux |-> t1, res |-> "ok", cmds |-> q]

RECURSIVE TotalTabs(_)
TotalTabs(cfg) ==
    IF cfg = <<>> THEN 0 ELSE Len(Head(cfg).configured_tabs) + TotalTabs(Tail(cfg))

RECURSIVE SumWindows(_, _)
SumWindows(t, names) ==
    IF names = {} THEN 0
    ELSE LET s == CHOOSE x \in names : TRUE
         IN Len(t[s]) + SumWindows(t, names \ {s})

TotalWindows(t) == SumWindows(t, DOMAIN t)

\* submit_input in AddingTab: "name" or "name:command"; an empty input adds nothing.
submit_add_tab ==
    /\ Running /\ input_mode = "AddingTab"
    /\ \/ /\ HasCurDim
          /\ TotalTabs(config) < MaxTabs
          /\ TotalWindows(tmux) < MaxWindows
          /\ \E tab \in TabInputs, fail \in {"none", "tmux", "save"} :
               LET r == add_tab_to_current_dimension(config, disk, tmux, selected_dimension,
                                                     tab.name, tab.command, fail)
               IN /\ (fail = "tmux" => SessionExists(tmux, CurDim.name))
                  /\ config' = r.config
                  /\ disk' = r.disk
                  /\ tmux' = r.tmux
                  /\ cmds' = r.cmds
                  /\ Charge(r.res \in {"err_tmux", "err_save"})
                  /\ message' = IF r.res = "ok" THEN "none" ELSE ErrorMessage(r.res)
       \/ /\ cmds' = <<>>
          /\ message' = "none"
          /\ Charge(FALSE)
          /\ UNCHANGED <<config, disk, tmux>>
    /\ input_mode' = "Normal"
    /\ pending_dimension_name' = NoName
    /\ ClearText
    /\ UNCHANGED <<appSel, appSearch, appUpdate, appExit, appEnv, client, clientWin, pc>>


\* ------------------------------------- remove_tab_from_current_dimension
\* A removal that keeps the selected position whatever remains.
ClampTabNever(tab_index, new_tab_count) == tab_index

\* The non-live selection clamp at the end of remove_tab_from_current_dimension.
ClampTab(tab_index, new_tab_count) ==
    IF tab_index >= new_tab_count /\ new_tab_count > 0 THEN new_tab_count - 1
    ELSE IF new_tab_count = 0 THEN NoTab
    ELSE tab_index

\* A removal that drops the first template whatever the window was called.
RemoveTabFirst(d, window_name) == DimRemoveTab(d, 0)

\* The template list after removing the first template named window_name, if any.
RemoveTabByName(d, window_name) ==
    IF PosOfName(d.configured_tabs, window_name) = 0 THEN d
    ELSE DimRemoveTab(d, PosOfName(d.configured_tabs, window_name) - 1)

\* Whether the call reaches kill-window / save_config, i.e. where it can fail.
RemoveReachesKill(cfg, t, sd, st) ==
    /\ st # NoTab /\ sd < Len(cfg)
    /\ SessionExists(t, cfg[sd + 1].name)
    /\ st \in WinIdxs(ListWindows(t, cfg[sd + 1].name))

RemoveReachesSave(cfg, t, sd, st) ==
    \/ RemoveReachesKill(cfg, t, sd, st)
    \/ /\ st # NoTab /\ sd < Len(cfg)
       /\ ~SessionExists(t, cfg[sd + 1].name)
       /\ st < Len(cfg[sd + 1].configured_tabs)

\* Selection after a live window was killed and the config saved: the
\* re-queried client window when the user is inside this session, else the
\* first remaining window.  place is where tmux left the client.
SelectionAfterKill(t1, session_name, cur_session, ins, place) ==
    IF cur_session = session_name /\ ins /\ place[1] # NoName
    THEN place[2]
    ELSE IF ListWindows(t1, session_name) = <<>> THEN NoTab
    ELSE ListWindows(t1, session_name)[1].idx

\* App::remove_tab_from_current_dimension; fail is "none", "tmux"
\* (kill-window fails) or "save".
remove_tab_from_current_dimension(cfg, dsk, t, sd, st, cur_session, cur_window, ins, place, fail) ==
    LET same == [config |-> cfg, disk |-> dsk, tmux |-> t, selected_tab |-> st,
                 current_window |-> cur_window, res |-> "ok", cmds |-> <<>>]
    IN IF st = NoTab \/ sd >= Len(cfg) THEN same
       ELSE LET d == cfg[sd + 1]
                session_name == d.name
                windows == ListWindows(t, session_name)
            IN IF SessionExists(t, session_name)
               THEN IF PosOfIdx(windows, st) = 0
                    THEN [same EXCEPT !.cmds = <<"has-session", "list-windows">>]
                    ELSE LET window_name == windows[PosOfIdx(windows, st)].name
                             t1 == KillWindow(t, session_name, st)
                             cfg1 == [cfg EXCEPT ![sd + 1] = RemoveTabByName(d, window_name)]
                             adopt == cur_session = session_name /\ ins
                             sel == SelectionAfterKill(t1, session_name, cur_session, ins, place)
                         IN IF fail = "tmux"
                            THEN [same EXCEPT !.res = "err_tmux",
                                     !.cmds = <<"has-session", "list-windows", "kill-window">>]
                            ELSE IF fail = "save"
                            THEN [same EXCEPT !.config = cfg1, !.tmux = t1, !.res = "err_save",
                                     !.cmds = <<"has-session", "list-windows", "kill-window">>]
                            ELSE [config |-> cfg1, disk |-> cfg1, tmux |-> t1,
                                  selected_tab |-> sel,
                                  current_window |-> IF adopt /\ place[1] # NoName
                                                     THEN place[2] ELSE cur_window,
                                  res |-> "ok",
                                  cmds |-> <<"has-session", "list-windows", "kill-window">> \o
                                           (IF adopt THEN <<"display-message">> ELSE <<>>) \o
                                           (IF adopt /\ place[1] # NoName THEN <<>>
                                            ELSE <<"list-windows">>)]
               ELSE IF st < Len(d.configured_tabs)
                    THEN LET cfg1 == [cfg EXCEPT ![sd + 1] = DimRemoveTab(d, st)]
                             new_tab_count == Len(cfg1[sd + 1].configured_tabs)
                         IN IF fail = "save"
                            THEN [same EXCEPT !.config = cfg1, !.res = "err_save",
                                              !.cmds = <<"has-session">>]
                            ELSE [same EXCEPT !.config = cfg1, !.disk = cfg1,
                                              !.selected_tab = ClampTab(st, new_tab_count),
                                              !.cmds = <<"has-session">>]
                    ELSE [same EXCEPT !.cmds = <<"has-session">>]

\* handle_delete_mode 'y' in DeletingTab: submit_input, then run_app's
\* error handling.
confirm_delete_tab ==
    /\ Running /\ input_mode = "DeletingTab"
    /\ \E fail \in {"none", "tmux", "save"} :
         /\ (fail = "tmux" => RemoveReachesKill(config, tmux, selected_dimension, selected_tab))
         /\ (fail = "save" => RemoveReachesSave(config, tmux, selected_dimension, selected_tab))
         /\ LET tk == IF RemoveReachesKill(config, tmux, selected_dimension, selected_tab)
                         /\ fail # "tmux"
                      THEN KillWindow(tmux, CurDim.name, selected_tab) ELSE tmux
            IN \E place \in ClientPlaces(tk, client, clientWin) :
                 LET r == remove_tab_from_current_dimension(config, disk, tmux,
                              selected_dimension, selected_tab, current_session,
                              current_window, inside, place, fail)
                 IN /\ config' = r.config
                    /\ disk' = r.disk
                    /\ tmux' = r.tmux
                    /\ selected_tab' = r.selected_tab
                    /\ current_window' = r.current_window
                    /\ client' = place[1]
                    /\ clientWin' = place[2]
                    /\ cmds' = r.cmds
                    /\ Charge(r.res \in {"err_tmux", "err_save"})
                    /\ message' = IF r.res = "ok" THEN "none" ELSE ErrorMessage(r.res)
    /\ input_mode' = "Normal"
    /\ pending_dimension_name' = NoName
    /\ ClearText
    /\ UNCHANGED <<selected_dimension, appSearch, appUpdate, appExit, current_session, inside, pc>>


\* ---------------------------------------------------- switch_to_dimension
\* A loop body that treats every tab as the first one.
TabCommandsRenameOnly(name, tab, i) == <<Cmd("rename-window", name, 0, tab.name)>>

\* The commands that materialize configured tab number i (0-based): the
\* first tab renames window 0 and sends its command if it has one, every
\* later tab is a new window.
TabCommands(name, tab, i) ==
    IF i = 0
    THEN <<Cmd("rename-window", name, 0, tab.name)>> \o
         (IF tab.working_dir # NoDir \/ tab.command # "none"
          THEN <<Cmd("send-keys", name, 0, "")>> ELSE <<>>)
    ELSE <<Cmd("new-window", name, NoTab, tab.name)>>

RECURSIVE TabsCommands(_, _, _)
TabsCommands(name, tabs, i) ==
    IF i >= Len(tabs) THEN <<>>
    ELSE TabCommands(name, tabs[i + 1], i) \o TabsCommands(name, tabs, i + 1)

\* format!("{}-1", name)
InitialTabName(name) == name \o "-1"

\* A template that does not carry the name given to the window.
InitialTabMisnamed(name, base_dir) == Tab(name, "none", base_dir)

\* "No configured tabs: create and save an initial tab": the template saved.

InitialTab(name, base_dir) == Tab(InitialTabName(name), "none", base_dir)

\* Everything switch_to_dimension sends to tmux for a session that does not exist.
CreationCommands(d) ==
    <<Cmd("new-session", d.name, NoTab, "")>> \o
    (IF d.configured_tabs # <<>> THEN TabsCommands(d.name, d.configured_tabs, 0)
     ELSE <<Cmd("rename-window", d.name, 0, InitialTabName(d.name))>>)

\* A switch that creates the session whether or not it exists.
EnsureSessionAlways(d, session_preexisted) == CreationCommands(d)

\* "Ensure tmux session exists": nothing is sent for a session that exists.

EnsureSession(d, session_preexisted) ==
    IF session_preexisted THEN <<>> ELSE CreationCommands(d)

\* Run plan[k..] against tmux; command number failAt fails (0 = none does),
\* and so does a command tmux rejects.  n is the number of commands issued.
RECURSIVE Execute(_, _, _, _)
Execute(t, plan, k, failAt) ==
    IF k > Len(plan) THEN [tmux |-> t, ok |-> TRUE, n |-> Len(plan)]
    ELSE IF k = failAt \/ ~CmdOk(t, plan[k]) THEN [tmux |-> t, ok |-> FALSE, n |-> k]
    ELSE Execute(CmdApply(t, plan[k]), plan, k + 1, failAt)

CmdNames(plan, n) == [i \in 1..n |-> plan[i].c]

\* A window resolution that ignores the selected position of a new session.
WindowIndexFirstOfNew(t, name, st, session_preexisted) ==
    IF st = NoTab \/ ~session_preexisted THEN 0
    ELSE IF st \in WinIdxs(ListWindows(t, name)) THEN st ELSE 0

\* "Determine which window to select".
WindowIndex(t, name, st, session_preexisted) ==
    IF st = NoTab THEN 0
    ELSE LET windows == ListWindows(t, name)
         IN IF session_preexisted
            THEN IF st \in WinIdxs(windows) THEN st ELSE 0
            ELSE IF st < Len(windows) THEN windows[st + 1].idx ELSE 0

\* App::switch_to_dimension for an existing selected dimension.
switch_to_dimension(cfg, dsk, t, sd, st, failAt, saveOk) ==
    LET d == cfg[sd + 1]
        name == d.name
        has_tabs == d.configured_tabs # <<>>
        session_preexisted == SessionExists(t, name)
        plan == EnsureSession(d, session_preexisted)
        x == Execute(t, plan, 1, failAt)
        cfg1 == IF session_preexisted \/ has_tabs THEN cfg
                ELSE [cfg EXCEPT ![sd + 1] = DimAddTab(d, InitialTab(name, d.base_dir))]
        issued == <<"has-session">> \o CmdNames(plan, x.n)
        same == [config |-> cfg, disk |-> dsk, tmux |-> x.tmux, should_attach |-> NoName,
                 should_select_window |-> NoTab, res |-> "ok", cmds |-> issued]
    IN IF ~x.ok THEN [same EXCEPT !.res = "err_tmux"]
       ELSE IF cfg1 # cfg /\ ~saveOk THEN [same EXCEPT !.config = cfg1, !.res = "err_save"]
       ELSE [config |-> cfg1,
             disk |-> IF cfg1 # cfg THEN cfg1 ELSE dsk,
             tmux |-> x.tmux,
             should_attach |-> name,
             should_select_window |-> WindowIndex(x.tmux, name, st, session_preexisted),
             res |-> "ok",
             cmds |-> issued \o (IF st # NoTab THEN <<"list-windows">> ELSE <<>>)]

\* How many tmux commands, and whether a save, the call would reach.
SwitchPlanLen(cfg, t, sd) ==
    Len(EnsureSession(cfg[sd + 1], SessionExists(t, cfg[sd + 1].name)))

SwitchSaves(cfg, t, sd) ==
    ~SessionExists(t, cfg[sd + 1].name) /\ cfg[sd + 1].configured_tabs = <<>>

\* handle_normal_mode, Enter.
enter_switch ==
    /\ Running /\ input_mode = "Normal"
    /\ IF HasCurDim
       THEN \E failAt \in 0..SwitchPlanLen(config, tmux, selected_dimension), saveOk \in BOOLEAN :
              LET r == switch_to_dimension(config, disk, tmux, selected_dimension,
                                           selected_tab, failAt, saveOk)
              IN /\ (~saveOk => SwitchSaves(config, tmux, selected_dimension) /\ failAt = 0)
                 /\ config' = r.config
                 /\ disk' = r.disk
                 /\ tmux' = r.tmux
                 /\ cmds' = r.cmds
                 /\ Charge(failAt # 0 \/ ~saveOk)
                 /\ IF r.res = "ok"
                    THEN /\ should_attach' = r.should_attach
                         /\ should_select_window' = r.should_select_window
                         /\ should_quit' = quit_without_detach.should_quit
                         /\ should_detach' = quit_without_detach.should_detach
                         /\ UNCHANGED message
                    ELSE /\ message' = ErrorMessage(r.res)
                         /\ UNCHANGED appExit
       ELSE /\ cmds' = <<>>
            /\ Charge(FALSE)
            /\ UNCHANGED <<config, disk, tmux, message, appExit>>
    /\ UNCHANGED <<appSel, input_mode, pending_dimension_name, appSearch, appText, appUpdate, appEnv,
                   client, clientWin, pc>>


\* ---------------------------------------------------------------- search
\* SkimMatcherV2::fuzzy_match comes from a crate outside the repository: a
\* matcher is any function from the names to "no match" or a positive score.
NoScore == 0
MaxScore == 1
Scores == 1..MaxScore

\* The (window index, name) pairs compute_search_results walks for dimension
\* d: the live windows if its session exists, else the configured tabs.
EffectiveTabs(t, d) ==
    IF SessionExists(t, d.name)
    THEN [i \in 1..Len(ListWindows(t, d.name)) |->
            [window |-> ListWindows(t, d.name)[i].idx, name |-> ListWindows(t, d.name)[i].name]]
    ELSE [i \in 1..Len(d.configured_tabs) |->
            [window |-> i - 1, name |-> d.configured_tabs[i].name]]

\* Every name the matcher is asked about.
SearchNames(cfg, t) ==
    {cfg[i].name : i \in 1..Len(cfg)}
        \cup UNION {{EffectiveTabs(t, cfg[i])[j].name : j \in 1..Len(EffectiveTabs(t, cfg[i]))} :
                    i \in 1..Len(cfg)}

SearchResult(dim_idx, dimension, list_idx, window_idx, tab_name, score, match_type) ==
    [dimension_index |-> dim_idx, dimension_name |-> dimension.name, tab_index |-> list_idx,
     tmux_window_index |-> window_idx, tab_name |-> tab_name, score |-> score,
     match_type |-> match_type]

\* A result that takes the dimension's score alone when both names match.
TabResultNoSum(dim_idx, dimension, list_idx, tab, dim_score, tab_score) ==
    SearchResult(dim_idx, dimension, list_idx, tab.window, tab.name,
        IF dim_score # NoScore THEN dim_score ELSE tab_score,
        IF dim_score # NoScore /\ tab_score # NoScore THEN "Both"
        ELSE IF dim_score # NoScore THEN "DimensionOnly"
        ELSE "TabOnly")

\* The result of one tab, score NoScore if neither name matches.
TabResult(dim_idx, dimension, list_idx, tab, dim_score, tab_score) ==
    SearchResult(dim_idx, dimension, list_idx, tab.window, tab.name,
        IF dim_score # NoScore /\ tab_score # NoScore THEN dim_score + tab_score
        ELSE IF dim_score # NoScore THEN dim_score
        ELSE tab_score,
        IF dim_score # NoScore /\ tab_score # NoScore THEN "Both"
        ELSE IF dim_score # NoScore THEN "DimensionOnly"
        ELSE "TabOnly")

\* A loop body that drops the placeholder of a dimension without tabs.
DimensionResultsNoPlaceholder(dim_idx, dimension, tabs, m) ==
    SelectSeq([i \in 1..Len(tabs) |->
                  TabResult(dim_idx, dimension, i - 1, tabs[i], m[dimension.name], m[tabs[i].name])],
              LAMBDA r : r.score # NoScore)

\* compute_search_results, the body of the loop over the dimensions.
DimensionResults(dim_idx, dimension, tabs, m) ==
    IF tabs = <<>> /\ m[dimension.name] # NoScore
    THEN <<SearchResult(dim_idx, dimension, 0, 0, "(no tabs)", m[dimension.name], "DimensionOnly")>>
    ELSE SelectSeq([i \in 1..Len(tabs) |->
                       TabResult(dim_idx, dimension, i - 1, tabs[i], m[dimension.name], m[tabs[i].name])],
                   LAMBDA r : r.score # NoScore)

\* The results of dimensions k.. in dimension order, before the sort.
RECURSIVE Unsorted(_, _, _, _)
Unsorted(cfg, t, m, k) ==
    IF k > Len(cfg) THEN <<>>
    ELSE DimensionResults(k - 1, cfg[k], EffectiveTabs(t, cfg[k]), m) \o Unsorted(cfg, t, m, k + 1)

\* A sort by score that puts the lowest score first.
RECURSIVE SortAscending(_, _)
SortAscending(rs, s) ==
    IF s = 0 THEN <<>>
    ELSE SortAscending(rs, s - 1) \o SelectSeq(rs, LAMBDA r : r.score = s)

\* search_results.sort_by(|a, b| b.score.cmp(&a.score)), a stable sort: the
\* results of score s in their order, for s from the highest score down.
RECURSIVE SortByScore(_, _)
SortByScore(rs, s) ==
    IF s = 0 THEN <<>>
    ELSE SelectSeq(rs, LAMBDA r : r.score = s) \o SortByScore(rs, s - 1)

\* Tmux::session_exists and Tmux::list_windows as compute_search_results
\* calls them, dimension by dimension.
RECURSIVE SearchCmds(_, _, _)
SearchCmds(cfg, t, k) ==
    IF k > Len(cfg) THEN <<>>
    ELSE (IF SessionExists(t, cfg[k].name) THEN <<"has-session", "list-windows">>
          ELSE <<"has-session">>) \o SearchCmds(cfg, t, k + 1)

\* A memo test that never finds the query computed already.
QueryNeverComputed(query, last) == FALSE

\* compute_search_results: "only recompute if query changed"
QueryComputed(query, last) == query = last

\* App::compute_search_results with matcher m: the result list, the cursor,
\* the remembered query and the tmux queries made.
compute_search_results(cfg, t, query, last, results, index, m) ==
    IF QueryComputed(query, last)
    THEN [results |-> results, index |-> index, last |-> last, cmds |-> <<>>]
    ELSE IF query = ""
    THEN [results |-> <<>>, index |-> 0, last |-> query, cmds |-> <<>>]
    ELSE [results |-> SortByScore(Unsorted(cfg, t, m, 1), 2 * MaxScore),
          index |-> 0,
          last |-> query,
          cmds |-> SearchCmds(cfg, t, 1)]

\* The matchers that can tell computations apart: one when nothing is computed.
Matchers(query) ==
    IF QueryComputed(query, last_computed_query) \/ query = ""
    THEN {[n \in SearchNames(config, tmux) |-> NoScore]}
    ELSE [SearchNames(config, tmux) -> Scores \cup {NoScore}]

\* ui::render in Searching mode after a handler left the query at query:
\* compute_search_results runs when the query is not empty.
Render(query) ==
    \E m \in Matchers(query) :
       LET r == IF query = ""
                THEN [results |-> search_results, index |-> search_selected_index,
                      last |-> last_computed_query, cmds |-> <<>>]
                ELSE compute_search_results(config, tmux, query, last_computed_query,
                                            search_results, search_selected_index, m)
       IN /\ search_results' = r.results
          /\ search_selected_index' = r.index
          /\ last_computed_query' = r.last
          /\ fuzzy' = IF query = "" \/ QueryComputed(query, last_computed_query) THEN fuzzy ELSE m
          /\ cmds' = r.cmds

\* ------------------------------------------------------------ text entry
\* The keys typed, and per input mode the texts a user types in full; the
\* buffer stays a prefix of one of them.
Chars == {"/", "c", "w", "d", "a", "b", "f", "x", "y", "m", ":", " ", "q"}

Texts(mode) ==
    CASE mode = "CreatingDimension" -> {"a "}
      [] mode = "CreatingDimensionDirectory" ->
            {"/cwd/ab", "/cwd/f", "/cwd/x", "ab", " "}
      [] mode = "AddingTab" -> {"y:m"}
      [] mode = "Searching" -> {"qq"}
      [] OTHER -> {}

Typable(mode) == UNION {{SubSeq(s, 1, k) : k \in 0..Len(s)} : s \in Texts(mode)}

\* What a frame does to the search state once a handler has run: nothing
\* outside Searching mode.
AfterKey(mode, query) ==
    IF mode = "Searching"
    THEN /\ search_query' = query
         /\ Render(query)
         /\ UNCHANGED <<pre_search_dimension, pre_search_tab>>
    ELSE /\ cmds' = <<>>
         /\ UNCHANGED appSearch

\* App::handle_input_char
handle_input_char ==
    /\ Running
    /\ \E c \in Chars :
         /\ input_buffer \o c \in Typable(input_mode)
         /\ input_buffer' = input_buffer \o c
         /\ clear_completion_state
         /\ AfterKey(input_mode, input_buffer \o c)
    /\ UNCHANGED <<config, disk, appSel, input_mode, pending_dimension_name, message, appUpdate,
                   appExit, appEnv, tmuxVars, pc, budget>>

\* String::pop
Pop(s) == IF s = "" THEN s ELSE SubSeq(s, 1, Len(s) - 1)

\* App::handle_input_backspace
handle_input_backspace ==
    /\ Running
    /\ Texts(input_mode) # {}
    /\ input_buffer' = Pop(input_buffer)
    /\ clear_completion_state
    /\ AfterKey(input_mode, Pop(input_buffer))
    /\ UNCHANGED <<config, disk, appSel, input_mode, pending_dimension_name, message, appUpdate,
                   appExit, appEnv, tmuxVars, pc, budget>>

\* PathCompleter::complete_directory, the candidates: the directories of the
\* directory searched whose name starts with the prefix typed, sorted.
Candidates(input) ==
    IF input = "" THEN <<>>
    ELSE LET expanded == expand_path(input)
             search_dir == IF EndsWith(input, "/") THEN Resolve(expanded) ELSE Parent(expanded)
             prefix == IF EndsWith(input, "/") THEN "" ELSE FileName(expanded)
         IN SelectSeq(Alphabetical,
                      LAMBDA d : /\ d \in Dirs \ {"/"}
                                 /\ Parent(d) = search_dir
                                 /\ StartsWith(FileName(d), prefix))

\* The first candidate taken for what all candidates share.
FirstCandidate(candidates) == IF candidates = <<>> THEN "" ELSE candidates[1]

\* PathCompleter::common_prefix
common_prefix(candidates) ==
    IF candidates = <<>> THEN ""
    ELSE LET Common(k) == \A i \in 1..Len(candidates) :
                             StartsWith(candidates[i], SubSeq(candidates[1], 1, k))
             n == CHOOSE k \in 0..Len(candidates[1]) :
                     Common(k) /\ \A j \in (k + 1)..Len(candidates[1]) : ~Common(j)
         IN SubSeq(candidates[1], 1, n)

\* The last n entries of a history.
LastEntries(h, n) == IF Len(h) <= n THEN h ELSE SubSeq(h, Len(h) - n + 1, Len(h))

\* A cursor that stops at the last candidate.
CycleNoWrap(index, direction, len) ==
    IF index + direction >= len \/ index + direction < 0 THEN index ELSE index + direction

\* A cursor that moves forward whatever the direction asked.
CycleForwardOnly(index, direction, len) == (index + 1) % len

\* handle_tab_completion_direction, "move to next/previous candidate"
Cycle(index, direction, len) == (index + direction + len) % len

\* A single match left as the candidate itself.
CompletedBare(candidate) == candidate

\* handle_tab_completion_direction, "complete it fully and add trailing slash"
Completed(candidate) == candidate \o "/"

\* App::handle_tab_completion_direction
handle_tab_completion_direction(direction) ==
    /\ Running /\ input_mode \in {"CreatingDimension", "CreatingDimensionDirectory",
                                  "AddingTab", "Searching"}
    /\ IF input_mode # "CreatingDimensionDirectory"
       THEN UNCHANGED appText
       ELSE IF completion_candidates # <<>> /\ completion_base # ""
       THEN /\ completion_index' = Cycle(completion_index, direction, Len(completion_candidates))
            /\ input_buffer' =
                 completion_candidates[Cycle(completion_index, direction, Len(completion_candidates)) + 1]
            /\ cycle_history' =
                 IF direction < 0 THEN <<>>
                 ELSE LastEntries(Append(cycle_history,
                          <<completion_candidates[Cycle(completion_index, direction,
                                                        Len(completion_candidates)) + 1],
                            Cycle(completion_index, direction, Len(completion_candidates))>>),
                        Len(completion_candidates) + 1)
            /\ UNCHANGED <<completion_candidates, completion_base>>
       ELSE IF direction < 0
       THEN UNCHANGED appText
       ELSE LET input == Trim(input_buffer)
                candidates == Candidates(input)
                prefix == common_prefix(candidates)
            IN IF Len(candidates) = 0 THEN UNCHANGED appText
               ELSE IF Len(candidates) = 1
               THEN /\ input_buffer' = Completed(candidates[1])
                    /\ clear_completion_state
               ELSE IF Len(prefix) > Len(input)
               THEN /\ input_buffer' = prefix
                    /\ completion_base' = prefix
                    /\ completion_candidates' = candidates
                    /\ completion_index' = 0
                    /\ cycle_history' = <<>>
               ELSE /\ completion_base' = input
                    /\ completion_candidates' = candidates
                    /\ completion_index' = 0
                    /\ cycle_history' = <<>>
                    /\ input_buffer' = candidates[1]
    /\ AfterKey(input_mode, search_query)
    /\ UNCHANGED <<config, disk, appSel, input_mode, pending_dimension_name, message, appUpdate,
                   appExit, appEnv, tmuxVars, pc, budget>>

handle_tab_completion == Running /\ handle_tab_completion_direction(1)

handle_backtab_completion == Running /\ handle_tab_completion_direction(-1)

\* App::start_search
start_search ==
    /\ Running /\ input_mode = "Normal"
    /\ input_mode' = "Searching"
    /\ input_buffer' = ""
    /\ search_query' = ""
    /\ last_computed_query' = ""
    /\ fuzzy' = <<>>
    /\ search_results' = <<>>
    /\ search_selected_index' = 0
    /\ pre_search_dimension' = selected_dimension
    /\ pre_search_tab' = selected_tab
    /\ message' = "none"
    /\ cmds' = <<>>
    /\ UNCHANGED <<config, disk, appSel, pending_dimension_name, appCompletion, appUpdate,
                   appExit, appEnv, tmuxVars, pc, budget>>

\* Position of the first ':' of s at or after i, 0 if there is none.
RECURSIVE FirstColon(_, _)
FirstColon(s, i) ==
    IF i > Len(s) THEN 0
    ELSE IF SubSeq(s, i, i) = ":" THEN i
    ELSE FirstColon(s, i + 1)

\* submit_input in AddingTab, input.splitn(2, ':'): "name" or "name:command".
ParseTab(input) ==
    IF FirstColon(input, 1) = 0 THEN [name |-> input, command |-> "none"]
    ELSE [name |-> SubSeq(input, 1, FirstColon(input, 1) - 1),
          command |-> SubSeq(input, FirstColon(input, 1) + 1, Len(input))]

\* submit_input in AddingTab on the buffer text; tmux and the save succeed.
SubmitTab(text) ==
    /\ IF Trim(text) # "" /\ HasCurDim
       THEN LET r == add_tab_to_current_dimension(config, disk, tmux, selected_dimension,
                         ParseTab(Trim(text)).name, ParseTab(Trim(text)).command, "none")
            IN /\ TotalTabs(config) < MaxTabs
               /\ TotalWindows(tmux) < MaxWindows
               /\ config' = r.config
               /\ disk' = r.disk
               /\ tmux' = r.tmux
               /\ cmds' = r.cmds
               /\ message' = IF r.res = "ok" THEN "none" ELSE ErrorMessage(r.res)
       ELSE /\ cmds' = <<>>
            /\ message' = "none"
            /\ UNCHANGED <<config, disk, tmux>>
    /\ input_mode' = "Normal"
    /\ pending_dimension_name' = NoName
    /\ ClearText
    /\ UNCHANGED <<appSel, appSearch, appUpdate, appExit, appEnv, client, clientWin, pc, budget>>

\* handle_input_mode, Enter, through App::submit_input: the text submitted is
\* the input buffer. In Searching mode without results nothing happens.
submit_input ==
    /\ Running
    /\ CASE input_mode = "CreatingDimension" -> SubmitName(input_buffer)
         [] input_mode = "CreatingDimensionDirectory" -> SubmitDirectory(input_buffer, TRUE)
         [] input_mode = "AddingTab" -> SubmitTab(input_buffer)
         [] input_mode = "Searching" ->
              /\ search_results = <<>>
              /\ AfterKey(input_mode, search_query)
              /\ UNCHANGED <<config, disk, appSel, input_mode, pending_dimension_name, appText,
                             message, appUpdate, appExit, appEnv, tmuxVars, pc, budget>>
         [] OTHER -> FALSE

\* App::next_search_result
next_search_result ==
    /\ Running /\ input_mode = "Searching"
    /\ search_selected_index' =
         IF search_results # <<>> THEN (search_selected_index + 1) % Len(search_results)
         ELSE search_selected_index
    /\ cmds' = <<>>
    /\ UNCHANGED <<config, disk, appSel, input_mode, pending_dimension_name, appText, search_query,
                   search_results, last_computed_query, fuzzy, pre_search_dimension, pre_search_tab,
                   message, appUpdate, appExit, appEnv, tmuxVars, pc, budget>>

\* App::previous_search_result
previous_search_result ==
    /\ Running /\ input_mode = "Searching"
    /\ search_selected_index' =
         IF search_results = <<>> THEN search_selected_index
         ELSE IF search_selected_index = 0 THEN Len(search_results) - 1
         ELSE search_selected_index - 1
    /\ cmds' = <<>>
    /\ UNCHANGED <<config, disk, appSel, input_mode, pending_dimension_name, appText, search_query,
                   search_results, last_computed_query, fuzzy, pre_search_dimension, pre_search_tab,
                   message, appUpdate, appExit, appEnv, tmuxVars, pc, budget>>

\* A selection that takes the position in the list for a live session too.
SelectedTabByPosition(t, result) == result.tab_index

\* select_search_result: the tab selected for a result, a window index if the
\* session of its dimension exists, else a position among the configured tabs.
SelectedTabOf(t, result) ==
    IF SessionExists(t, result.dimension_name) THEN result.tmux_window_index
    ELSE result.tab_index

\* handle_input_mode, Enter in Searching mode with results:
\* App::select_search_result, with run_app's error handling.
select_search_result ==
    /\ Running /\ input_mode = "Searching"
    /\ search_results # <<>>
    /\ search_selected_index < Len(search_results)
    /\ LET result == search_results[search_selected_index + 1]
           sd == result.dimension_index
           st == SelectedTabOf(tmux, result)
       IN /\ sd < Len(config)
          /\ selected_dimension' = sd
          /\ selected_tab' = st
          /\ input_mode' = "Normal"
          /\ search_query' = ""
          /\ search_results' = <<>>
          /\ last_computed_query' = ""
          /\ fuzzy' = <<>>
          /\ \E failAt \in 0..SwitchPlanLen(config, tmux, sd), saveOk \in BOOLEAN :
               LET r == switch_to_dimension(config, disk, tmux, sd, st, failAt, saveOk)
               IN /\ (~saveOk => SwitchSaves(config, tmux, sd) /\ failAt = 0)
                  /\ config' = r.config
                  /\ disk' = r.disk
                  /\ tmux' = r.tmux
                  /\ cmds' = r.cmds
                  /\ Charge(failAt # 0 \/ ~saveOk)
                  /\ IF r.res = "ok"
                     THEN /\ should_attach' = r.should_attach
                          /\ should_select_window' = r.should_select_window
                          /\ should_quit' = quit_without_detach.should_quit
                          /\ should_detach' = quit_without_detach.should_detach
                          /\ UNCHANGED <<message, pending_dimension_name, appText>>
                     ELSE /\ message' = ErrorMessage(r.res)
                          /\ pending_dimension_name' = NoName
                          /\ ClearText
                          /\ UNCHANGED appExit
    /\ UNCHANGED <<search_selected_index, pre_search_dimension, pre_search_tab, appUpdate, appEnv,
                   client, clientWin, pc>>

\* ---------------------------------------------------------- update check
\* The thread App::new spawns: check_for_update_message ends with a message
\* or with none and sends it, or the thread dies before it sends. A send
\* after the receiver is gone is lost.
update_thread ==
    /\ pc = "running"
    /\ update_tx = "running"
    /\ \E outcome \in {"some", "none", "dropped"} :
         update_tx' = IF update_rx THEN outcome ELSE "dropped"
    /\ UNCHANGED <<config, disk, appSel, input_mode, pending_dimension_name, appSearch, appText,
                   message, update_message, update_rx, appExit, appEnv, tmuxVars, pc, budget, cmds>>

\* rx.try_recv() on the channel: what poll_update learns without waiting.
try_recv(tx) ==
    IF tx \in {"some", "none"} THEN "Ok"
    ELSE IF tx = "running" THEN "Empty"
    ELSE "Disconnected"

\* A poll_update that keeps the receiver whatever it learns.
ReceiverKept(received) == TRUE

\* poll_update: update_rx is Some afterwards only if the channel was empty.
ReceiverAfter(received) == received = "Empty"

\* App::poll_update, at the start of every frame of run_app.
poll_update ==
    /\ pc = "running"
    /\ IF ~update_rx THEN UNCHANGED appUpdate
       ELSE /\ update_rx' = ReceiverAfter(try_recv(update_tx))
            /\ IF try_recv(update_tx) = "Ok"
               THEN /\ update_message' = IF update_tx = "some" THEN "update available"
                                         ELSE NoName
                    /\ update_tx' = "taken"
               ELSE UNCHANGED <<update_message, update_tx>>
    /\ UNCHANGED <<config, disk, appSel, input_mode, pending_dimension_name, appSearch, appText,
                   message, appExit, appEnv, tmuxVars, pc, budget, cmds>>

\* ------------------------------------------------------------ process
\* main, "Handle post-TUI actions": where the client is afterwards.
PostTui(t, ins, cl, cw, detach, attach, window) ==
    IF detach /\ ins THEN <<NoName, NoTab>>
    ELSE IF attach # NoName /\ window \in WinIdxs(ListWindows(t, attach))
    THEN <<attach, window>>
    ELSE <<cl, cw>>

\* main, "Handle post-TUI actions": the tmux commands sent.
PostTuiCmds(ins, detach, attach) ==
    IF detach /\ ins THEN <<"detach-client">>
    ELSE IF attach # NoName
    THEN IF ins THEN <<"switch-client">> ELSE <<"attach-session">>
    ELSE <<>>

exit ==
    /\ pc = "running" /\ should_quit
    /\ pc' = "exited"
    /\ LET place == PostTui(tmux, inside, client, clientWin, should_detach,
                            should_attach, should_select_window)
       IN client' = place[1] /\ clientWin' = place[2]
    /\ cmds' = PostTuiCmds(inside, should_detach, should_attach)
    /\ UNCHANGED <<config, disk, appSel, input_mode, pending_dimension_name, appSearch, appText, appUpdate,
                   message, appExit, appEnv, tmux, budget>>

\* App::new: "Start selection on the current tmux session's dimension".
StartDimension(cfg, session) ==
    IF session # NoName /\ PosOfName(cfg, session) # 0 THEN PosOfName(cfg, session) - 1 ELSE 0

\* A later run of the program, started outside tmux or from a window of a
\* live session: App::new.
new ==
    /\ pc = "exited"
    /\ \E place \in {<<NoName, NoTab>>} \cup
                    UNION {{<<s, k>> : k \in WinIdxs(tmux[s])} : s \in DOMAIN tmux} :
         /\ client' = place[1]
         /\ clientWin' = place[2]
         /\ inside' = (place[1] # NoName)
         /\ current_session' = place[1]
         /\ current_window' = place[2]
         /\ selected_dimension' = StartDimension(disk, place[1])
    /\ config' = disk
    /\ selected_tab' = NoTab
    /\ input_mode' = "Normal"
    /\ pending_dimension_name' = NoName
    /\ input_buffer' = ""
    /\ completion_candidates' = <<>>
    /\ completion_index' = 0
    /\ completion_base' = ""
    /\ cycle_history' = <<>>
    /\ search_query' = ""
    /\ search_results' = <<>>
    /\ search_selected_index' = 0
    /\ last_computed_query' = ""
    /\ fuzzy' = <<>>
    /\ pre_search_dimension' = 0
    /\ pre_search_tab' = NoTab
    /\ message' = "none"
    /\ update_message' = NoName
    /\ update_rx' = TRUE
    /\ update_tx' = "running"
    /\ should_quit' = FALSE
    /\ should_attach' = NoName
    /\ should_select_window' = NoTab
    /\ should_detach' = FALSE
    /\ pc' = "running"
    /\ runs < MaxRuns
    /\ runs' = runs + 1
    /\ cmds' = <<>>
    /\ UNCHANGED <<disk, tmux, failures, externals>>

\* ------------------------------------------------- the world outside
\* Somebody else closes a window, or a whole session, while the program runs.
ext_kill_window ==
    /\ Running
    /\ \E s \in DOMAIN tmux : \E k \in WinIdxs(tmux[s]) :
         /\ tmux' = KillWindow(tmux, s, k)
         /\ \E place \in ClientPlaces(KillWindow(tmux, s, k), client, clientWin) :
              client' = place[1] /\ clientWin' = place[2]
    /\ UNCHANGED <<config, disk, appSel, input_mode, pending_dimension_name, appSearch, appText, appUpdate,
                   message, appExit, appEnv, pc, failures, runs, cmds>>
    /\ externals < MaxExternal
    /\ externals' = externals + 1

ext_kill_session ==
    /\ Running
    /\ \E s \in DOMAIN tmux :
         /\ SessionExists(tmux, s)
         /\ tmux' = KillSession(tmux, s)
         /\ \E place \in ClientPlaces(KillSession(tmux, s), client, clientWin) :
              client' = place[1] /\ clientWin' = place[2]
    /\ UNCHANGED <<config, disk, appSel, input_mode, pending_dimension_name, appSearch, appText, appUpdate,
                   message, appExit, appEnv, pc, failures, runs, cmds>>
    /\ externals < MaxExternal
    /\ externals' = externals + 1


Next ==
    \/ next_dimension
    \/ previous_dimension
    \/ next_tab
    \/ previous_tab
    \/ quit
    \/ close_popup
    \/ start_create_dimension
    \/ start_add_tab
    \/ start_delete
    \/ cancel_input
    \/ submit_name
    \/ submit_directory
    \/ confirm_delete_dimension
    \/ submit_add_tab
    \/ confirm_delete_tab
    \/ enter_switch
    \/ exit
    \/ new
    \/ ext_kill_window
    \/ ext_kill_session

Spec == Init /\ [][Next]_vars

\* The program and its user alone.
NextReliable ==
    \/ next_dimension
    \/ previous_dimension
    \/ next_tab
    \/ previous_tab
    \/ quit
    \/ close_popup
    \/ start_create_dimension
    \/ start_add_tab
    \/ start_delete
    \/ cancel_input
    \/ submit_name
    \/ submit_directory
    \/ confirm_delete_dimension
    \/ submit_add_tab
    \/ confirm_delete_tab
    \/ enter_switch
    \/ exit
    \/ new

SpecReliable == InitReliable /\ [][NextReliable]_vars

\* One run of the program, from its start to the actions after the TUI.
NextOneRun ==
    \/ next_dimension
    \/ previous_dimension
    \/ next_tab
    \/ previous_tab
    \/ quit
    \/ close_popup
    \/ start_create_dimension
    \/ start_add_tab
    \/ start_delete
    \/ cancel_input
    \/ submit_name
    \/ submit_directory
    \/ confirm_delete_dimension
    \/ submit_add_tab
    \/ confirm_delete_tab
    \/ enter_switch
    \/ exit

SpecOneRun == InitOneRun /\ [][NextOneRun]_vars

\* ------------------------------------------- a start in any environment
\* The elements of a finite set of integers in increasing order.
RECURSIVE SortedSeq(_)
SortedSeq(S) ==
    IF S = {} THEN <<>>
    ELSE LET m == CHOOSE x \in S : \A y \in S : x <= y
         IN <<m>> \o SortedSeq(S \ {m})

\* The window lists a session can hold when the program starts: list-windows
\* prints them by increasing index; a window may carry a template's name or not.
StartWindowNames == {"x", "z"}

StartWindowLists ==
    {<<>>} \cup
    UNION {{[i \in 1..Cardinality(S) |-> Window(SortedSeq(S)[i], f[SortedSeq(S)[i]])] :
              f \in [S -> StartWindowNames]} :
           S \in (SUBSET (0..(MaxStartWindows - 1))) \ {{}}}

\* The template lists config.json can hold for a dimension at the start.
StartTabs == {Tab("x", "none", CurrentDir), Tab("y", "make", CurrentDir)}

StartTabLists == UNION {[1..n -> StartTabs] : n \in 0..MaxStartTabs}

\* The documents config.json can hold at the start: up to three dimensions,
\* the first with templates.
StartNames == DimNames \cup {"c"}

StartConfigs ==
    {<<>>} \cup
    UNION {{<<[name |-> "a", configured_tabs |-> ts, base_dir |-> NoDir]>>,
            <<[name |-> "a", configured_tabs |-> ts, base_dir |-> NoDir],
              NewDimension("b", NoDir)>>,
            <<[name |-> "a", configured_tabs |-> ts, base_dir |-> NoDir],
              NewDimension("b", NoDir), NewDimension("c", NoDir)>>} :
           ts \in StartTabLists}

\* App::new in an environment that holds a config.json and tmux sessions
\* already, started outside tmux or from a window of a live session.
InitStartedApp ==
    /\ config \in StartConfigs
    /\ disk = config
    /\ tmux \in {[s \in StartNames |-> IF s = "a" THEN wa ELSE IF s = "b" THEN wb ELSE <<>>] :
                   wa \in StartWindowLists, wb \in {<<>>, <<Window(0, DefaultWindowName)>>}}
    /\ \E place \in {<<NoName, NoTab>>} \cup
                    UNION {{<<s, k>> : k \in WinIdxs(tmux[s])} : s \in DOMAIN tmux} :
         /\ client = place[1]
         /\ clientWin = place[2]
         /\ inside = (place[1] # NoName)
         /\ current_session = place[1]
         /\ current_window = place[2]
         /\ selected_dimension = StartDimension(config, place[1])
    /\ selected_tab = NoTab
    /\ input_mode = "Normal"
    /\ pending_dimension_name = NoName
    /\ input_buffer = ""
    /\ completion_candidates = <<>>
    /\ completion_index = 0
    /\ completion_base = ""
    /\ cycle_history = <<>>
    /\ search_query = ""
    /\ search_results = <<>>
    /\ search_selected_index = 0
    /\ last_computed_query = ""
    /\ fuzzy = <<>>
    /\ pre_search_dimension = 0
    /\ pre_search_tab = NoTab
    /\ message = "none"
    /\ update_message = NoName
    /\ update_rx = TRUE
    /\ update_tx = "running"
    /\ should_quit = FALSE
    /\ should_attach = NoName
    /\ should_select_window = NoTab
    /\ should_detach = FALSE
    /\ pc = "running"
    /\ cmds = <<>>

\* The program and its user alone, for one run.
InitStarted ==
    /\ InitStartedApp
    /\ failures = MaxFailures
    /\ externals = MaxExternal
    /\ runs = MaxRuns

\* Moving the selection and deleting what is selected.
NextStarted ==
    \/ next_dimension
    \/ previous_dimension
    \/ next_tab
    \/ previous_tab
    \/ start_delete
    \/ cancel_input
    \/ confirm_delete_dimension
    \/ confirm_delete_tab

SpecStarted == InitStarted /\ [][NextStarted]_vars

\* ================================================================ claims
\* What the arrow keys walk over for the selected dimension: the live window
\* indices when its session exists, else the template positions 0..n-1.
TabRing(cfg, t, sd) ==
    IF sd >= Len(cfg) THEN <<>>
    ELSE IF t[cfg[sd + 1].name] # <<>>
    THEN [i \in 1..Len(t[cfg[sd + 1].name]) |-> t[cfg[sd + 1].name][i].idx]
    ELSE [i \in 1..Len(cfg[sd + 1].configured_tabs) |-> i - 1]

Count(seq, x) == Cardinality({i \in DOMAIN seq : seq[i] = x})

\* enter_switch ran switch_to_dimension to its end on the selected dimension.
SwitchSucceeds == ~should_quit /\ should_quit' /\ should_attach' # NoName /\ enter_switch

\* C1: tab traversal converges in both directions, live or not: next_tab from
\* the last tab and previous_tab from the first tab both give "dimension
\* selected", and next_tab from "dimension selected" gives the first tab.
C1_Step ==
    LET ring == TabRing(config, tmux, selected_dimension)
    IN ring # <<>> =>
         /\ (next_tab /\ selected_tab = ring[Len(ring)] => selected_tab' = NoTab)
         /\ (previous_tab /\ selected_tab = ring[1] => selected_tab' = NoTab)
         /\ (next_tab /\ selected_tab = NoTab => selected_tab' = ring[1])

C1_TraversalConverges == [][C1_Step]_vars

\* C2: when a tab is selected and the session already existed, a successful
\* switch_to_dimension targets the selected window index if it is still in
\* the window list, and the first window of the list otherwise.
C2_Step ==
    selected_tab # NoTab /\ HasCurDim /\ tmux[CurDim.name] # <<>> /\ SwitchSucceeds =>
        should_select_window' =
            IF \E i \in 1..Len(tmux[CurDim.name]) : tmux[CurDim.name][i].idx = selected_tab
            THEN selected_tab
            ELSE tmux[CurDim.name][1].idx

C2_TargetFallsBackToFirstWindow == [][C2_Step]_vars

\* The call removed the only tab of the selected dimension: the only live
\* window (which is gone afterwards), or the only template of a dimension
\* without a session.
RemovedLastTab ==
    /\ input_mode = "DeletingTab" /\ HasCurDim /\ selected_tab # NoTab
    /\ confirm_delete_tab
    /\ \/ /\ Len(tmux[CurDim.name]) = 1
          /\ tmux[CurDim.name][1].idx = selected_tab
          /\ tmux'[CurDim.name] = <<>>
       \/ /\ tmux[CurDim.name] = <<>>
          /\ Len(CurDim.configured_tabs) = 1
          /\ selected_tab = 0
          /\ config'[selected_dimension + 1].configured_tabs = <<>>

\* C3: after remove_tab_from_current_dimension removed the last remaining tab
\* of the selected dimension without an error, selected_tab is "dimension
\* selected", also when the user is inside that dimension's session.
C3_LastTabRemovedSelectsDimension ==
    [][RemovedLastTab /\ message' = "none" => selected_tab' = NoTab]_vars

\* C4: the dimension names of the config are pairwise distinct after any
\* sequence of create, delete, add-tab, remove-tab and switch calls, whether
\* they succeed or fail; so are those of the persisted document, which is
\* the config the next run starts from.
C4_NamesDistinct ==
    /\ \A i, j \in 1..Len(config) : i # j => config[i].name # config[j].name
    /\ \A i, j \in 1..Len(disk) : i # j => disk[i].name # disk[j].name

\* Two dimensions are configured and an operation has failed since the start.
C4_Witness == Len(config) = 2 /\ failures > 0 /\ config[1].name # config[2].name

\* C5: create_dimension with a name that already exists fails with the
\* duplicate-name error, leaves config, persisted document and selection as
\* they were, adds no dimension and sends nothing to tmux.
C5_Step ==
    /\ input_mode = "CreatingDimensionDirectory"
    /\ input_mode' = "Normal"
    /\ \E i \in 1..Len(config) : config[i].name = pending_dimension_name
    /\ submit_directory
    => /\ message' = "Error: err_duplicate"
       /\ config' = config
       /\ disk' = disk
       /\ selected_dimension' = selected_dimension
       /\ selected_tab' = selected_tab
       /\ tmux' = tmux
       /\ cmds' = <<>>

C5_DuplicateRefused == [][C5_Step]_vars

\* A duplicate name was just refused.
C5_Witness == message = "Error: err_duplicate" /\ config # <<>> /\ input_mode = "Normal"

\* C6: between two operations the persisted document equals the in-memory
\* config, whether the last operation succeeded or failed.
C6_PersistedEqualsConfig == disk = config

\* C7: between operations selected_dimension is a valid index whenever the
\* list is non-empty, and 0 when it is empty.
C7_SelectedDimensionValid ==
    IF config = <<>> THEN selected_dimension = 0 ELSE selected_dimension < Len(config)

\* C8: a successful switch_to_dimension on a dimension without session and
\* with templates t0..tn leaves a session of exactly n+1 windows named t0..tn
\* in that order, the first the renamed initial window, the others new windows.
C8_Step ==
    HasCurDim /\ tmux[CurDim.name] = <<>> /\ CurDim.configured_tabs # <<>> /\ SwitchSucceeds =>
        LET tabs == CurDim.configured_tabs
            ws == tmux'[CurDim.name]
        IN /\ Len(ws) = Len(tabs)
           /\ \A i \in 1..Len(tabs) : ws[i].name = tabs[i].name /\ ws[i].idx = i - 1
           /\ Count(cmds', "new-session") = 1
           /\ Count(cmds', "rename-window") = 1
           /\ Count(cmds', "new-window") = Len(tabs) - 1

C8_TabsMaterializedInOrder == [][C8_Step]_vars

\* A switch just created a session of two windows from two templates.
C8_Witness ==
    /\ should_quit /\ should_attach # NoName
    /\ Count(cmds, "new-session") = 1 /\ Count(cmds, "new-window") = 1
    /\ Len(tmux[should_attach]) = 2

\* C9: a successful switch_to_dimension on a dimension without session and
\* without templates leaves exactly one template, which is in the persisted
\* document, and one live window of the same name.
C9_Step ==
    HasCurDim /\ tmux[CurDim.name] = <<>> /\ CurDim.configured_tabs = <<>> /\ SwitchSucceeds =>
        LET tabs == config'[selected_dimension + 1].configured_tabs
        IN /\ Len(tabs) = 1
           /\ \E j \in 1..Len(disk') : /\ disk'[j].name = CurDim.name
                                        /\ disk'[j].configured_tabs = tabs
           /\ Len(tmux'[CurDim.name]) = 1
           /\ tmux'[CurDim.name][1].name = tabs[1].name

C9_AdHocTabPersisted == [][C9_Step]_vars

\* A switch just created a session for a dimension that had no template.
C9_Witness ==
    /\ should_quit /\ should_attach # NoName
    /\ cmds = <<"has-session", "new-session", "rename-window">>
    /\ Len(tmux[should_attach]) = 1

\* C10: switch_to_dimension on a dimension whose session is live creates no
\* session, creates, renames or kills no window, sends no keys and changes
\* neither config nor persisted document; it only queries tmux.
C10_Step ==
    HasCurDim /\ tmux[CurDim.name] # <<>> /\ enter_switch =>
        /\ tmux' = tmux
        /\ config' = config
        /\ disk' = disk
        /\ \A i \in 1..Len(cmds') : cmds'[i] \in {"has-session", "list-windows"}

C10_LiveSwitchChangesNothing == [][C10_Step]_vars

\* A later run just switched, with a window selected, to a session that was
\* live already.
C10_Witness ==
    /\ runs > 1 /\ should_quit /\ should_attach # NoName
    /\ cmds = <<"has-session", "list-windows">>
    /\ selected_tab # NoTab
    /\ tmux[should_attach] # <<>>

\* C11: when the session did not exist and selected_tab is a configured
\* position k below the number of templates, a successful switch_to_dimension
\* targets the live index of the window materialized from template k, the
\* window that carries that template's name.
C11_Step ==
    /\ HasCurDim /\ tmux[CurDim.name] = <<>>
    /\ selected_tab # NoTab /\ selected_tab < Len(CurDim.configured_tabs)
    /\ SwitchSucceeds
    => LET ws == tmux'[CurDim.name]
           k == selected_tab + 1
       IN /\ k <= Len(ws)
          /\ ws[k].name = CurDim.configured_tabs[k].name
          /\ should_select_window' = ws[k].idx
          /\ should_attach' = CurDim.name

C11_NewSessionTargetsSelectedTemplate == [][C11_Step]_vars

\* A switch just created a session with the second template selected.
C11_Witness ==
    /\ should_quit /\ should_attach # NoName
    /\ Count(cmds, "new-session") = 1
    /\ selected_tab = 1 /\ should_select_window = 1
    /\ Len(tmux[should_attach]) = 2

\* C12: after switch_to_dimension succeeds with a non-empty dimension list,
\* should_attach is the selected dimension's name, should_select_window is the
\* resolved window index, should_quit is true and should_detach is false;
\* when it fails, should_attach, should_select_window and should_quit are
\* left as they were.
C12_Step ==
    /\ (config # <<>> /\ failures' = failures /\ enter_switch =>
          /\ selected_dimension < Len(config)
          /\ should_attach' = config[selected_dimension + 1].name
          /\ should_select_window' # NoTab
          /\ (selected_tab = NoTab => should_select_window' = 0)
          /\ (selected_tab # NoTab /\ selected_tab \in WinIdxs(tmux[should_attach'])
                => should_select_window' = selected_tab)
          /\ should_quit'
          /\ ~should_detach')
    /\ (failures' # failures /\ enter_switch =>
          UNCHANGED <<should_attach, should_select_window, should_quit>>)

C12_SwitchRecordsTarget == [][C12_Step]_vars

\* C13: the state never has should_detach true together with a recorded
\* attach target, and every process exit performs at most one of the detach
\* of the quit path and the attach or switch of the switch path: the detach
\* only when should_detach is set, the attach or switch only when a target is
\* recorded and no detach is performed.
C13_DetachOrAttachNotBoth ==
    /\ ~(should_detach /\ should_attach # NoName)
    /\ pc = "exited" =>
         /\ Len(cmds) <= 1
         /\ (\E i \in 1..Len(cmds) : cmds[i] = "detach-client")
               => should_detach /\ should_attach = NoName
         /\ (\E i \in 1..Len(cmds) : cmds[i] \in {"switch-client", "attach-session"})
               => should_attach # NoName /\ ~should_detach

\* The program, started inside tmux, has exited on the switch path.
C13_Witness ==
    /\ pc = "exited" /\ inside
    /\ cmds = <<"switch-client">>
    /\ should_attach # NoName /\ ~should_detach

\* confirm_delete_tab killed the selected live window of the selected dimension.
KilledLiveWindow ==
    /\ input_mode = "DeletingTab" /\ HasCurDim
    /\ selected_tab \in WinIdxs(tmux[CurDim.name])
    /\ selected_tab \notin WinIdxs(tmux'[CurDim.name])
    /\ message' = "none"
    /\ confirm_delete_tab

\* C14: after remove_tab_from_current_dimension killed a live window: if it
\* was the client's current window in the session the user is inside,
\* selected_tab is the client's current window index as re-queried after the
\* kill; otherwise (another window was killed, or the user is not inside that
\* session) selected_tab is the first remaining live window of the session,
\* or "dimension selected" when none remains.
C14_Step ==
    KilledLiveWindow =>
        LET name == CurDim.name
            first == IF tmux'[name] = <<>> THEN NoTab ELSE tmux'[name][1].idx
        IN IF inside /\ current_session = name /\ client = name /\ clientWin = selected_tab
           THEN selected_tab' = IF client' # NoName THEN clientWin' ELSE first
           ELSE selected_tab' = first

C14_SelectionAfterKill == [][C14_Step]_vars

\* confirm_delete_tab ran on a live session without an error.
RemovedFromLive ==
    /\ input_mode = "DeletingTab" /\ HasCurDim /\ selected_tab # NoTab
    /\ tmux[CurDim.name] # <<>>
    /\ message' = "none"
    /\ confirm_delete_tab

\* C15: on a live session, remove_tab_from_current_dimension with selected_tab
\* a live index i of the window list kills exactly window i, removes the
\* template whose name equals the killed window's name if there is one (the
\* templates are unchanged otherwise) and persists the config; when i is not
\* in the window list no window is killed and the config is unchanged.
C15_Step ==
    RemovedFromLive =>
        LET name == CurDim.name
            ws == tmux[name]
            tabs == CurDim.configured_tabs
            tabs1 == config'[selected_dimension + 1].configured_tabs
        IN IF \E k \in 1..Len(ws) : ws[k].idx = selected_tab
           THEN LET k == CHOOSE k \in 1..Len(ws) : ws[k].idx = selected_tab
                    killed == ws[k].name
                IN /\ tmux'[name] = SeqRemove(ws, k)
                   /\ \A s \in DOMAIN tmux : s # name => tmux'[s] = tmux[s]
                   /\ Count(cmds', "kill-window") = 1
                   /\ IF \E j \in 1..Len(tabs) : tabs[j].name = killed
                      THEN /\ Len(tabs1) = Len(tabs) - 1
                           /\ \E j \in 1..Len(tabs) :
                                tabs[j].name = killed /\ tabs1 = SeqRemove(tabs, j)
                      ELSE tabs1 = tabs
                   /\ \A j \in 1..Len(config) :
                        j # selected_dimension + 1 => config'[j] = config[j]
                   /\ Len(config') = Len(config)
                   /\ disk' = config'
           ELSE /\ tmux' = tmux
                /\ config' = config
                /\ disk' = disk
                /\ Count(cmds', "kill-window") = 0

C15_LiveRemoveKillsSelectedWindow == [][C15_Step]_vars

\* A window of the selected dimension's session was just killed and the
\* config saved; the session still has a window and the dimension a template.
C15_Witness ==
    /\ Count(cmds, "kill-window") = 1 /\ message = "none"
    /\ \E s \in DOMAIN tmux : /\ tmux[s] # <<>>
                              /\ \E j \in 1..Len(config) :
                                   /\ config[j].name = s
                                   /\ Len(config[j].configured_tabs) = 1
                                   /\ j = selected_dimension + 1
    /\ disk = config

\* C16: on a dimension without a live session,
\* remove_tab_from_current_dimension removes the template at the configured
\* position selected_tab and persists the config; afterwards selected_tab is
\* "dimension selected" when no template remains and otherwise a position
\* below the number of remaining templates.
C16_Step ==
    /\ input_mode = "DeletingTab" /\ HasCurDim /\ selected_tab # NoTab
    /\ tmux[CurDim.name] = <<>>
    /\ selected_tab < Len(CurDim.configured_tabs)
    /\ message' = "none"
    /\ confirm_delete_tab
    => LET tabs == CurDim.configured_tabs
           tabs1 == config'[selected_dimension + 1].configured_tabs
       IN /\ tabs1 = [j \in 1..(Len(tabs) - 1) |->
                        IF j <= selected_tab THEN tabs[j] ELSE tabs[j + 1]]
          /\ Len(config') = Len(config)
          /\ \A j \in 1..Len(config) :
               j # selected_dimension + 1 => config'[j] = config[j]
          /\ config'[selected_dimension + 1].name = CurDim.name
          /\ disk' = config'
          /\ tmux' = tmux
          /\ IF tabs1 = <<>> THEN selected_tab' = NoTab
             ELSE selected_tab' >= 0 /\ selected_tab' < Len(tabs1)

AddedTab ==
    /\ input_mode = "AddingTab" /\ HasCurDim
    /\ config' # config
    /\ message' = "none"
    /\ submit_add_tab

\* C17: add_tab_to_current_dimension(name, command) appends exactly one
\* template of that name and command at the end of the selected dimension's
\* templates, leaves the other dimensions alone and persists the config; when
\* the dimension's session is live it creates one window of that name in it,
\* and when it is not live it creates no window and no session.
C17_Step ==
    AddedTab =>
        LET name == CurDim.name
            tabs == CurDim.configured_tabs
            tabs1 == config'[selected_dimension + 1].configured_tabs
            ws == tmux[name]
            ws1 == tmux'[name]
        IN /\ Len(tabs1) = Len(tabs) + 1
           /\ \A j \in 1..Len(tabs) : tabs1[j] = tabs[j]
           /\ \E tab \in TabInputs :
                /\ tabs1[Len(tabs1)].name = tab.name
                /\ tabs1[Len(tabs1)].command = tab.command
                /\ IF ws # <<>>
                   THEN /\ Len(ws1) = Len(ws) + 1
                        /\ \A w \in 1..Len(ws) : \E v \in 1..Len(ws1) : ws1[v] = ws[w]
                        /\ \E v \in 1..Len(ws1) :
                             /\ ws1[v].name = tab.name
                             /\ \A w \in 1..Len(ws) : ws[w].idx # ws1[v].idx
                        /\ Count(cmds', "new-window") = 1
                   ELSE /\ ws1 = <<>>
                        /\ Count(cmds', "new-window") = 0
                        /\ Count(cmds', "new-session") = 0
           /\ Len(config') = Len(config)
           /\ \A j \in 1..Len(config) :
                j # selected_dimension + 1 => config'[j] = config[j]
           /\ config'[selected_dimension + 1].name = name
           /\ \A s \in DOMAIN tmux : s # name => tmux'[s] = tmux[s]
           /\ disk' = config'

C17_AddTabAppendsOneTemplate == [][C17_Step]_vars

\* A second template was just added to a dimension whose session is live:
\* the window was created and the config saved.
C17_Witness ==
    /\ cmds = <<"has-session", "new-window">> /\ message = "none"
    /\ selected_dimension < Len(config)
    /\ Len(config[selected_dimension + 1].configured_tabs) = 2
    /\ Len(tmux[config[selected_dimension + 1].name]) = 2
    /\ disk = config

\* C18: delete_dimension(name) fails and changes nothing when no dimension has
\* that name; when one exists and the call succeeds, no dimension of that name
\* remains in the config or in the persisted document, no live session of that
\* name remains, the other dimensions keep their relative order and
\* selected_tab is "dimension selected".
C18_Step ==
    /\ \A name \in DOMAIN tmux, fail \in {"none", "tmux", "save"} :
         (\A j \in 1..Len(config) : config[j].name # name) =>
            LET r == delete_dimension(config, disk, tmux, selected_dimension,
                                      selected_tab, name, fail)
            IN /\ r.res = "err_notfound"
               /\ r.config = config /\ r.disk = disk /\ r.tmux = tmux
               /\ r.selected_dimension = selected_dimension
               /\ r.selected_tab = selected_tab
               /\ r.cmds = <<>>
    /\ (/\ input_mode = "DeletingDimension" /\ HasCurDim
        /\ message' = "none"
        /\ confirm_delete_dimension
        => LET name == CurDim.name
               Other(d) == d.name # name
           IN /\ \A j \in 1..Len(config') : config'[j].name # name
              /\ \A j \in 1..Len(disk') : disk'[j].name # name
              /\ tmux'[name] = <<>>
              /\ \A s \in DOMAIN tmux : s # name => tmux'[s] = tmux[s]
              /\ config' = SelectSeq(config, Other)
              /\ Len(config') = Len(config) - 1
              /\ selected_tab' = NoTab)

C18_DeleteDimension == [][C18_Step]_vars

\* The live session of a dimension was just killed and the dimension deleted;
\* two other dimensions are still configured, in their order.
C18_Witness ==
    /\ cmds = <<"has-session", "kill-session">> /\ message = "none"
    /\ Len(config) = 2 /\ config[1].name = "a" /\ config[2].name = "c"
    /\ tmux["b"] = <<>>
    /\ disk = config /\ selected_tab = NoTab

\* C19: on a live session, previous_tab with selected_tab the window at
\* position p > 0 of the window list selects the window at position p - 1,
\* previous_tab with selected_tab the window at position 0 gives "dimension
\* selected", and a following next_tab selects the first window of the list
\* (windows [(0, build), (1, test)]: from index 1 to index 0, to "dimension
\* selected", then next_tab to index 0).
C19_Step ==
    HasCurDim /\ tmux[CurDim.name] # <<>> =>
        LET ws == tmux[CurDim.name]
        IN /\ \A p \in 1..Len(ws) :
                selected_tab = ws[p].idx /\ previous_tab =>
                    selected_tab' = IF p > 1 THEN ws[p - 1].idx ELSE NoTab
           /\ (selected_tab = NoTab /\ next_tab => selected_tab' = ws[1].idx)

C19_LivePreviousTabWalksBack == [][C19_Step]_vars

\* previous_tab just left the first window of a live session of three
\* windows: the dimension itself is selected.
C19_Witness ==
    /\ cmds = <<"has-session", "list-windows">> /\ selected_tab = NoTab
    /\ selected_dimension < Len(config)
    /\ Len(tmux[config[selected_dimension + 1].name]) = 3

\* C20: with N > 0 dimensions next_dimension moves selected_dimension s to
\* (s + 1) mod N and previous_dimension to (s - 1) mod N, each resets
\* selected_tab to "dimension selected", and on the positions 0..N-1 each
\* undoes the other; with an empty dimension list both leave the whole state
\* as it is.
C20_Step ==
    LET N == Len(config)
        s == selected_dimension
    IN /\ N > 0 =>
            /\ \A i \in 0..(N - 1) :
                 /\ PreviousDimensionOf(N, NextDimensionOf(N, i)) = i
                 /\ NextDimensionOf(N, PreviousDimensionOf(N, i)) = i
            /\ (next_dimension =>
                  selected_dimension' = (s + 1) % N /\ selected_tab' = NoTab)
            /\ (previous_dimension =>
                  selected_dimension' = (s + N - 1) % N /\ selected_tab' = NoTab)
       /\ (N = 0 /\ input_mode = "Normal" /\ (next_dimension \/ previous_dimension) =>
             UNCHANGED <<config, disk, appSel, input_mode, pending_dimension_name,
                         appSearch, appText, appUpdate, message, appExit, appEnv, tmuxVars, pc, budget>>)

C20_DimensionTraversalCyclic == [][C20_Step]_vars

\* Of three dimensions the third is selected, which only next_dimension or
\* previous_dimension can have done in a run that starts on the first or the
\* second.
C20_Witness ==
    /\ Len(config) = 3 /\ selected_dimension = 2 /\ selected_tab = NoTab
    /\ pc = "running"

\* ------------------------------------------------- text entry, one run
\* One run of the program from an empty list, tmux and the saves reliable:
\* the keys of the input modes, one at a time.
NextText ==
    \/ next_dimension
    \/ next_tab
    \/ start_create_dimension
    \/ start_add_tab
    \/ start_delete
    \/ start_search
    \/ handle_input_char
    \/ handle_input_backspace
    \/ handle_tab_completion
    \/ handle_backtab_completion
    \/ submit_input
    \/ next_search_result
    \/ previous_search_result
    \/ cancel_input

SpecText == InitReliable /\ [][NextText]_vars

\* ------------------------------------------------------- search, one run
\* App::new outside tmux with two dimensions listed, the first with any
\* templates and any session of at most two windows; tmux is reliable.
InitSearch ==
    /\ InitStarted
    /\ Len(config) = MaxDims
    /\ Len(tmux["a"]) <= MaxWindows
    /\ tmux["b"] = <<>>
    /\ ~inside

\* Moving the selection, then the keys of Searching mode.
NextSearch ==
    \/ next_dimension
    \/ next_tab
    \/ start_search
    \/ handle_input_char
    \/ handle_input_backspace
    \/ next_search_result
    \/ previous_search_result
    \/ submit_input
    \/ select_search_result
    \/ cancel_input

SpecSearch == InitSearch /\ [][NextSearch]_vars

\* ------------------------------------------- the update check, several runs
NextUpdate ==
    \/ NextReliable
    \/ poll_update
    \/ update_thread

SpecUpdate == InitReliable /\ [][NextUpdate]_vars

\* ---------------------------------------------------------------- C21
\* A create_dimension that returned Ok: the staged name was new, the list grew
\* by one and no error was reported.
C21_Created ==
    /\ input_mode = "CreatingDimensionDirectory"
    /\ pending_dimension_name # NoName
    /\ ~DimensionExists(config, pending_dimension_name)
    /\ Len(config') = Len(config) + 1
    /\ message' = "none"
    /\ submit_directory

\* C21 (frame): a successful create_dimension appends one dimension with no
\* tabs at the end of the list, saves the list, issues no tmux command and
\* leaves every session as it was: the new dimension has a live session
\* afterwards exactly when a session of its name was already there.
C21_Step ==
    C21_Created =>
        /\ SubSeq(config', 1, Len(config)) = config
        /\ config'[Len(config')].name = pending_dimension_name
        /\ config'[Len(config')].configured_tabs = <<>>
        /\ disk' = config'
        /\ cmds' = <<>>
        /\ tmux' = tmux
        /\ SessionExists(tmux', pending_dimension_name)
             <=> SessionExists(tmux, pending_dimension_name)

C21_CreateIsLocal == [][C21_Step]_vars

\* C21 as stated: the dimension just created never has a live session.
C21_NewDimensionHasNoSession ==
    [][C21_Created => ~SessionExists(tmux', pending_dimension_name)]_vars

\* A dimension was created behind another one, and no session carries its name.
C21_Witness ==
    /\ Len(config) = 2
    /\ config[2].configured_tabs = <<>>
    /\ disk = config
    /\ input_mode = "Normal"
    /\ cmds = <<>>
    /\ message = "none"
    /\ ~SessionExists(tmux, config[2].name)
    /\ SessionExists(tmux, config[1].name)

\* ---------------------------------------------------------------- C22
\* While a search is on, nothing has moved the selection since start_search
\* saved it.
C22_SavedSelection ==
    input_mode = "Searching" =>
        pre_search_dimension = selected_dimension /\ pre_search_tab = selected_tab

C22_Step ==
    (input_mode # "Normal" /\ cancel_input) =>
        /\ input_mode' = "Normal"
        /\ input_buffer' = ""
        /\ pending_dimension_name' = NoName
        /\ completion_candidates' = <<>> /\ completion_base' = "" /\ completion_index' = 0
        /\ search_query' = "" /\ search_results' = <<>>
        /\ config' = config
        /\ IF input_mode = "Searching"
           THEN selected_dimension' = pre_search_dimension /\ selected_tab' = pre_search_tab
           ELSE UNCHANGED appSel

\* C22 (frame): cancel from any input mode returns to Normal and clears the
\* input buffer, the staged dimension name, the completion state, the search
\* query and the search results; out of Searching it sets the selection to
\* the one saved when the search began, which is the selection the search
\* still had; out of any other mode the selection and the config are unchanged.
C22_CancelClears == [](C22_SavedSelection) /\ [][C22_Step]_vars

\* A search with a tab selected was cancelled after the result cursor had moved.
C22_Witness ==
    /\ input_mode = "Normal"
    /\ search_selected_index > 0
    /\ search_results = <<>>
    /\ search_query = ""
    /\ input_buffer = ""
    /\ selected_tab # NoTab

\* ---------------------------------------------------------------- C23
\* Enter in CreatingDimensionDirectory with a name staged that no dimension
\* carries yet.
C23_Submit ==
    /\ input_mode = "CreatingDimensionDirectory"
    /\ pending_dimension_name # NoName
    /\ ~DimensionExists(config, pending_dimension_name)
    /\ submit_input

C23_Step ==
    C23_Submit =>
        IF Trim(input_buffer) = ""
        THEN /\ config' = Append(config, NewDimension(pending_dimension_name, NoDir))
             /\ input_mode' = "Normal"
        ELSE IF Resolve(expand_path(Trim(input_buffer))) \notin Dirs
        THEN /\ config' = config /\ disk' = disk
             /\ input_mode' = "CreatingDimensionDirectory"
             /\ input_buffer' = input_buffer
             /\ pending_dimension_name' = pending_dimension_name
             /\ message' # "none"
        ELSE /\ config' = Append(config, NewDimension(pending_dimension_name,
                                                       expand_path(Trim(input_buffer))))
             /\ input_mode' = "Normal"

\* C23 (errors): submit in CreatingDimensionDirectory with a blank input
\* creates the staged dimension without a base directory and returns to
\* Normal; with a path that is missing or not a directory it creates nothing,
\* stays in the mode and keeps the input buffer and the staged name; with a
\* directory it creates the staged dimension with that directory, made
\* absolute, as its base directory.
C23_SubmitDirectory == [][C23_Step]_vars

\* A path that does not exist was submitted: the mode, the text and the
\* staged name are still there, and nothing was created.
C23_Witness ==
    /\ input_mode = "CreatingDimensionDirectory"
    /\ message = "InvalidDir"
    /\ input_buffer = "/cwd/x"
    /\ pending_dimension_name = "a"
    /\ config = <<>>

\* ---------------------------------------------------------------- C28
\* C28 (cycle): with N candidates, the buffer and the cursor after N forward
\* completion requests in a row, counted from any cycle step, are the buffer
\* and the cursor that cycle step left.
C28_CycleReturns ==
    (completion_candidates # <<>> /\ Len(cycle_history) = Len(completion_candidates) + 1)
        => /\ cycle_history[Len(cycle_history)] = cycle_history[1]
           /\ input_buffer = cycle_history[1][1]
           /\ completion_index = cycle_history[1][2]

\* Four forward requests in a row over three candidates: the buffer and the
\* cursor are back at the second candidate, where the first request left them.
C28_Witness ==
    /\ input_mode = "CreatingDimensionDirectory"
    /\ Len(completion_candidates) = 3
    /\ Len(cycle_history) = 4
    /\ completion_base = "/cwd/a"
    /\ completion_index = 1
    /\ input_buffer = "/cwd/ab"

\* ---------------------------------------------------------------- C24
\* A step in which compute_search_results computed the results of a query.
Recomputed == last_computed_query' # last_computed_query /\ last_computed_query' # ""

\* The places in the result list rs of the results for tab j of dimension i.
ResultsFor(rs, i, j) ==
    {k \in 1..Len(rs) : rs[k].dimension_index = i - 1 /\ rs[k].tab_index = j - 1}

\* rs holds, for tab j of dimension i with scores d and t, one result with the
\* score and the classification of the table, or none if neither name matched.
C24_Row(rs, i, j, tab, d, t) ==
    IF d = NoScore /\ t = NoScore THEN ResultsFor(rs, i, j) = {}
    ELSE /\ Cardinality(ResultsFor(rs, i, j)) = 1
         /\ \A k \in ResultsFor(rs, i, j) :
              /\ rs[k].tab_name = tab.name
              /\ rs[k].tmux_window_index = tab.window
              /\ rs[k].dimension_name = config[i].name
              /\ rs[k].score = (IF d # NoScore /\ t # NoScore THEN d + t
                                ELSE IF d # NoScore THEN d ELSE t)
              /\ rs[k].match_type = (IF d # NoScore /\ t # NoScore THEN "Both"
                                     ELSE IF d # NoScore THEN "DimensionOnly" ELSE "TabOnly")

C24_Step ==
    Recomputed =>
        \A i \in 1..Len(config) :
           \A j \in 1..Len(EffectiveTabs(tmux, config[i])) :
              C24_Row(search_results', i, j, EffectiveTabs(tmux, config[i])[j],
                      fuzzy'[config[i].name], fuzzy'[EffectiveTabs(tmux, config[i])[j].name])

\* C24 (function): for a non-empty query the results computed hold, for every
\* dimension and every tab of its effective tab set (the live windows if its
\* session exists, else the configured tabs), exactly one result if the
\* dimension name or the tab name matches and none if neither does, with
\* score d + t and class Both, d and DimensionOnly, or t and TabOnly.
C24_OneResultPerMatch == [][C24_Step]_vars

\* The first dimension matched and neither of its two tabs did: one
\* dimension-only result per tab.
C24_Witness ==
    /\ input_mode = "Searching"
    /\ search_query # ""
    /\ \E k, l \in 1..Len(search_results) :
         /\ search_results[k].dimension_index = 0 /\ search_results[l].dimension_index = 0
         /\ search_results[k].tab_index = 0 /\ search_results[l].tab_index = 1
         /\ search_results[k].match_type = "DimensionOnly"
         /\ search_results[l].match_type = "DimensionOnly"
         /\ search_results[k].score = search_results[l].score

\* ---------------------------------------------------------------- C25
\* Result k stood before result l when the results were pushed.
PushedBefore(rs, k, l) ==
    \/ rs[k].dimension_index < rs[l].dimension_index
    \/ rs[k].dimension_index = rs[l].dimension_index /\ rs[k].tab_index < rs[l].tab_index

\* C25 (invariant): search_results is sorted by non-increasing score, and
\* results of equal score stand in dimension order, then tab order.
C25_SortedStable ==
    \A k, l \in 1..Len(search_results) :
       k < l => \/ search_results[k].score > search_results[l].score
                \/ /\ search_results[k].score = search_results[l].score
                   /\ PushedBefore(search_results, k, l)

\* Three results: the sort moved the second tab of the first dimension, which
\* matched with its dimension, in front of the first tab, and the two results
\* of equal score that follow kept the order of their dimensions.
C25_Witness ==
    /\ Len(search_results) = 3
    /\ search_results[1].dimension_index = 0 /\ search_results[1].tab_index = 1
    /\ search_results[2].dimension_index = 0 /\ search_results[2].tab_index = 0
    /\ search_results[3].dimension_index = 1
    /\ search_results[1].score > search_results[2].score
    /\ search_results[2].score = search_results[3].score

\* ---------------------------------------------------------------- C26
C26_Step ==
    Recomputed =>
        \A i \in 1..Len(config) :
           EffectiveTabs(tmux, config[i]) = <<>> =>
              LET own == {k \in 1..Len(search_results') :
                            search_results'[k].dimension_index = i - 1}
              IN IF fuzzy'[config[i].name] = NoScore THEN own = {}
                 ELSE /\ Cardinality(own) = 1
                      /\ \A k \in own :
                           /\ search_results'[k].match_type = "DimensionOnly"
                           /\ search_results'[k].score = fuzzy'[config[i].name]
                           /\ search_results'[k].tab_name = "(no tabs)"

\* C26 (function): a dimension whose effective tab set is empty has exactly
\* one result if its name matches, a placeholder classified DimensionOnly
\* with the dimension's score, and no result if its name does not match.
C26_Placeholder == [][C26_Step]_vars

\* Both dimensions are without tabs and both matched: two placeholders.
C26_Witness ==
    /\ input_mode = "Searching"
    /\ Len(search_results) = 2
    /\ \A k \in 1..2 : /\ search_results[k].tab_name = "(no tabs)"
                       /\ search_results[k].dimension_index = k - 1

\* ---------------------------------------------------------------- C27
\* Enter in Searching mode on the result under the cursor, a result that
\* stands for a tab.
C27_Select ==
    /\ input_mode = "Searching"
    /\ search_results # <<>>
    /\ search_results[search_selected_index + 1].tab_name # "(no tabs)"
    /\ select_search_result

C27_Step ==
    C27_Select =>
        LET result == search_results[search_selected_index + 1]
            name == result.dimension_name
        IN /\ selected_dimension' = result.dimension_index
           /\ config[selected_dimension' + 1].name = name
           /\ IF SessionExists(tmux, name)
              THEN \E w \in 1..Len(tmux[name]) :
                      /\ tmux[name][w].idx = selected_tab'
                      /\ tmux[name][w].name = result.tab_name
              ELSE /\ selected_tab' < Len(config[selected_dimension' + 1].configured_tabs)
                   /\ config[selected_dimension' + 1].configured_tabs[selected_tab' + 1].name
                        = result.tab_name
           /\ input_mode' = "Normal"
           /\ should_quit'
           /\ should_attach' = name
           /\ \E w \in 1..Len(tmux'[name]) :
                 /\ tmux'[name][w].idx = should_select_window'
                 /\ tmux'[name][w].name = result.tab_name

\* C27 (function): select_search_result sets selected_dimension to the
\* result's dimension and selected_tab to the result's tab, as the index of
\* its window if the session of the dimension exists and as its position
\* among the configured tabs if not, leaves Searching for Normal and switches
\* to the dimension at once: the attach target recorded is the dimension's
\* session and the window that carries the name of the result's tab.
C27_SelectSwitches == [][C27_Step]_vars

\* A result of a live session whose windows are not numbered like their
\* places in the list was selected: the target is the window's own index.
C27_Witness ==
    /\ should_quit
    /\ input_mode = "Normal"
    /\ input_buffer # ""
    /\ should_attach = "a"
    /\ selected_tab = 2
    /\ should_select_window = 2
    /\ Len(tmux["a"]) = 2

\* ---------------------------------------------------------------- C30
\* A key typed or deleted in Searching mode that leaves a query to compute.
C30_Frame ==
    /\ input_mode = "Searching"
    /\ search_query' # ""
    /\ handle_input_char \/ handle_input_backspace

C30_Step ==
    C30_Frame =>
        IF search_query' = last_computed_query
        THEN /\ cmds' = <<>>
             /\ search_results' = search_results
             /\ search_selected_index' = search_selected_index
             /\ last_computed_query' = last_computed_query
        ELSE /\ cmds' = SearchCmds(config, tmux, 1)
             /\ cmds' # <<>>
             /\ search_selected_index' = 0
             /\ last_computed_query' = search_query'
             /\ \A k \in 1..Len(search_results') :
                   fuzzy'[search_results'[k].dimension_name] # NoScore
                       \/ fuzzy'[search_results'[k].tab_name] # NoScore

\* C30 (frame): compute_search_results with the query it computed last
\* queries nothing in tmux and leaves search_results and
\* search_selected_index as they are; with another query it asks tmux about
\* every dimension, puts the matches of that query in search_results and
\* sets search_selected_index to 0.
C30_Memoized == [][C30_Step]_vars

\* The cursor is on the second result of the query computed last and the last
\* frame asked tmux nothing, as after the query was deleted and typed again.
C30_Witness ==
    /\ input_mode = "Searching"
    /\ search_query = "q"
    /\ last_computed_query = "q"
    /\ search_selected_index = 1
    /\ Len(search_results) >= 2
    /\ cmds = <<>>

\* ---------------------------------------------------------------- C29
\* A step of one run of the program.
C29_SameRun == pc = "running" /\ pc' = "running" /\ runs' = runs

C29_Step ==
    C29_SameRun =>
        /\ ~update_rx => ~update_rx' /\ update_message' = update_message
        /\ update_message' # update_message => update_rx /\ ~update_rx'
        /\ (update_tx' = "taken" /\ update_tx # "taken") => update_rx /\ ~update_rx'
        /\ (update_rx /\ ~update_rx') => update_tx \in {"some", "none", "dropped"}
        /\ (~update_rx /\ poll_update) => UNCHANGED vars

\* C29 (concurrency): in every running state, whatever the thread has done,
\* poll_update can take its step at once; once it has received the result or
\* seen the channel disconnected the receiver is gone for the rest of the
\* run, a later poll_update changes nothing, and update_message is assigned
\* at most once, with the receiver given up in the same step.
C29_ConsumedOnce == [](pc = "running" => ENABLED poll_update) /\ [][C29_Step]_vars

\* The message of the version check was taken in a second run of the program.
C29_Witness ==
    /\ pc = "running"
    /\ runs = 2
    /\ ~update_rx
    /\ update_tx = "taken"
    /\ update_message = "update available"

\* ---------------------------------------------------------------- C31
\* A cycling session is active: candidates are stored and the base is set.
Cycling == completion_candidates # <<>> /\ completion_base # ""

\* Only the directory mode has a cycling session, and its cursor is a
\* position of the candidate list.
C31_CursorInList ==
    Cycling => /\ input_mode = "CreatingDimensionDirectory"
               /\ completion_index \in 0..(Len(completion_candidates) - 1)

C31_Step ==
    /\ (Cycling /\ handle_tab_completion) =>
          /\ completion_index' = IF completion_index = Len(completion_candidates) - 1
                                 THEN 0 ELSE completion_index + 1
          /\ input_buffer' = completion_candidates[completion_index' + 1]
          /\ UNCHANGED <<completion_candidates, completion_base>>
    /\ (Cycling /\ handle_backtab_completion) =>
          /\ completion_index' = IF completion_index = 0
                                 THEN Len(completion_candidates) - 1
                                 ELSE completion_index - 1
          /\ input_buffer' = completion_candidates[completion_index' + 1]
          /\ UNCHANGED <<completion_candidates, completion_base>>
    /\ (~Cycling /\ handle_backtab_completion) =>
          UNCHANGED <<input_buffer, completion_candidates, completion_base, completion_index>>

\* C31 (cycle step): while candidates are stored and the base is set, a
\* forward request moves the cursor one up and from the last candidate to the
\* first, a backward request one down and from the first to the last; the
\* buffer becomes the candidate under the cursor and the stored candidates
\* and the base stay. With no cycling session a backward request changes
\* neither the buffer nor the completion state.
C31_CycleStep == [](C31_CursorInList) /\ [][C31_Step]_vars

\* A backward request at the first of three candidates went to the last.
C31_Witness ==
    /\ Cycling
    /\ Len(completion_candidates) = 3
    /\ completion_index = 2
    /\ input_buffer = completion_candidates[3]
    /\ cycle_history = <<>>

\* ---------------------------------------------------------------- C32
\* The directories a fresh request on the buffer finds: those of the directory
\* searched whose name starts with what was typed after the last separator.
C32_Matches ==
    LET input == Trim(input_buffer)
    IN IF input = "" THEN {}
       ELSE {d \in Dirs \ {"/"} :
               IF EndsWith(input, "/")
               THEN Parent(d) = Resolve(expand_path(input))
               ELSE /\ Parent(d) = Parent(expand_path(input))
                    /\ StartsWith(FileName(d), FileName(expand_path(input)))}

\* A forward request in the directory mode with no cycling session.
C32_Fresh ==
    /\ input_mode = "CreatingDimensionDirectory"
    /\ ~Cycling
    /\ handle_tab_completion

C32_Step ==
    /\ (Cardinality(C32_Matches) = 0 /\ C32_Fresh) =>
          UNCHANGED <<input_buffer, completion_candidates, completion_base, completion_index>>
    /\ (Cardinality(C32_Matches) = 1 /\ C32_Fresh) =>
          /\ Pop(input_buffer') \in C32_Matches
          /\ EndsWith(input_buffer', "/")
          /\ ~EndsWith(Pop(input_buffer'), "/")
          /\ completion_candidates' = <<>>
          /\ completion_base' = ""
          /\ completion_index' = 0

\* C32 (fresh request, at most one match): a forward request with no cycling
\* session changes nothing when no directory matches; when one directory
\* matches, the buffer becomes that directory followed by one separator, and
\* the candidate list and the base are empty and the cursor is 0 afterwards.
C32_SingleMatch == [][C32_Step]_vars

\* The relative name of one directory was completed to its path and a separator.
C32_Witness ==
    /\ input_mode = "CreatingDimensionDirectory"
    /\ input_buffer = "/cwd/ab/"
    /\ ~Cycling
    /\ completion_index = 0

\* ---------------------------------------------------------------- C33
\* The texts every matching directory starts with, and the longest of them.
C33_Shared ==
    {p \in UNION {{SubSeq(d, 1, k) : k \in 0..Len(d)} : d \in C32_Matches} :
        \A d \in C32_Matches : StartsWith(d, p)}

C33_Longest == CHOOSE p \in C33_Shared : \A q \in C33_Shared : Len(q) <= Len(p)

C33_Step ==
    /\ (Cardinality(C32_Matches) >= 2 /\ C32_Fresh) =>
          /\ Len(completion_candidates') = Cardinality(C32_Matches)
          /\ {completion_candidates'[i] : i \in 1..Len(completion_candidates')} = C32_Matches
          /\ completion_candidates' = SelectSeq(Alphabetical, LAMBDA d : d \in C32_Matches)
          /\ completion_index' = 0
          /\ IF Len(C33_Longest) > Len(Trim(input_buffer))
             THEN /\ input_buffer' = C33_Longest
                  /\ completion_base' = C33_Longest
             ELSE /\ input_buffer' = completion_candidates'[1]
                  /\ completion_base' = Trim(input_buffer)
          /\ Cycling'
    /\ (Cycling /\ handle_tab_completion) =>
          /\ completion_candidates' = completion_candidates
          /\ \E i \in 1..Len(completion_candidates) : input_buffer' = completion_candidates[i]

\* C33 (fresh request, several matches): a forward request with no cycling
\* session and several matching directories stores them in order with the
\* cursor at 0; when the longest text they share is longer than the trimmed
\* input the buffer and the base become that text, else the base is the
\* trimmed input and the buffer the first candidate. A cycling session is
\* active afterwards, and a forward request in a cycling session keeps the
\* stored candidates and puts one of them in the buffer.
C33_SeveralMatches == [][C33_Step]_vars

\* Three directories matched and the buffer went to the text they share.
C33_Witness ==
    /\ input_mode = "CreatingDimensionDirectory"
    /\ Len(completion_candidates) = 3
    /\ completion_index = 0
    /\ completion_base = "/cwd/a"
    /\ input_buffer = "/cwd/a"

\* ---------------------------------------------------------------- C34
\* A character was pushed on the input buffer or popped from it.
C34_Edit == handle_input_char \/ handle_input_backspace

C34_Step ==
    /\ C34_Edit =>
          /\ completion_candidates' = <<>>
          /\ completion_base' = ""
          /\ completion_index' = 0
    /\ (~Cycling /\ input_mode = "CreatingDimensionDirectory" /\ handle_tab_completion) =>
          \/ UNCHANGED <<input_buffer, completion_candidates>>
          \/ /\ C32_Matches # {}
             /\ completion_candidates' \in
                  {<<>>, SelectSeq(Alphabetical, LAMBDA d : d \in C32_Matches)}
    /\ (input_mode # "CreatingDimensionDirectory"
          /\ (handle_tab_completion \/ handle_backtab_completion)) =>
          UNCHANGED <<input_buffer, completion_candidates, completion_base, completion_index,
                      input_mode, config, disk, tmux, appSel, search_query, search_results,
                      search_selected_index, pending_dimension_name, message>>

\* C34 (edits end a cycle): a character pushed on the input buffer or popped
\* from it leaves the candidate list and the base empty and the cursor 0, so
\* the completion request that follows finds no cycling session and takes its
\* candidates from the directories matching the buffer as edited; and a
\* completion request in any mode but CreatingDimensionDirectory changes
\* nothing.
C34_EditEndsCycle == [][C34_Step]_vars

\* A character was typed behind the text three candidates share, which the
\* buffer had been completed to: no cycling session is left.
C34_Witness ==
    /\ input_mode = "CreatingDimensionDirectory"
    /\ input_buffer = "/cwd/ab"
    /\ completion_candidates = <<>>
    /\ completion_base = ""
    /\ completion_index = 0
    /\ cycle_history = <<>>

\* ---------------------------------------------------------------- C35
\* The operation of the key handled returned an error: a tmux command or a
\* save failed, or the name staged for a new dimension was already listed.
C35_Failed ==
    \/ failures' = failures + 1
    \/ /\ input_mode = "CreatingDimensionDirectory"
       /\ pending_dimension_name # NoName
       /\ DimensionExists(config, pending_dimension_name)
       /\ message' # "InvalidDir"
       /\ submit_directory

C35_Step ==
    C35_Failed =>
        /\ pc' = "running"
        /\ input_mode' = "Normal"
        /\ message' \in {ErrorMessage(e) : e \in {"err_duplicate", "err_tmux", "err_save"}}
        /\ message' # "none"
        /\ UNCHANGED <<should_quit, should_attach, should_select_window, should_detach>>

\* C35 (errors): when the operation of a key handler returns an error (the
\* name is already listed, a tmux command fails, a save fails) the loop goes
\* on: the mode is Normal afterwards, the message is the error's, and
\* should_quit and the attach target are what they were.
C35_ErrorsRecovered == [][C35_Step]_vars

\* A save failed while a dimension was listed: the program is running in
\* Normal mode with the error shown and nothing to attach to.
C35_Witness ==
    /\ pc = "running" /\ ~should_quit
    /\ input_mode = "Normal"
    /\ message = ErrorMessage("err_save")
    /\ should_attach = NoName
    /\ failures > 0
    /\ config # <<>>

\* ---------------------------------------------------------------- C37
\* C37: whenever switch_to_dimension records an attach target, the window
\* index recorded is the index of a window in the live window list of the
\* session recorded, whatever is selected and whatever windows the session has.
C37_Step ==
    SwitchSucceeds =>
        should_select_window' \in WinIdxs(ListWindows(tmux', should_attach'))

C37_TargetWindowExists == [][C37_Step]_vars

\* ------------------------------------------------- the mode machine, one run
\* One run from an empty list, tmux and the saves reliable: the keys that
\* enter a mode, edit its text, submit it, confirm it or cancel it.
NextModes ==
    \/ next_tab
    \/ start_create_dimension
    \/ start_add_tab
    \/ start_delete
    \/ start_search
    \/ handle_input_char
    \/ handle_input_backspace
    \/ submit_input
    \/ select_search_result
    \/ confirm_delete_dimension
    \/ confirm_delete_tab
    \/ cancel_input

SpecModes == InitReliable /\ [][NextModes]_vars

\* ---------------------------------------------------------------- C36
\* Enter (y in the delete modes) was handled: submit_input or select_search_result.
C36_Submit ==
    submit_input \/ select_search_result \/ confirm_delete_dimension \/ confirm_delete_tab

C36_Step ==
    /\ (input_mode' # input_mode /\ input_mode' = "CreatingDimensionDirectory") =>
          /\ input_mode = "CreatingDimension"
          /\ Trim(input_buffer) # ""
          /\ submit_input
    /\ (input_mode' # input_mode
          /\ input_mode' \notin {"Normal", "CreatingDimensionDirectory"}) =>
          /\ input_mode = "Normal"
          /\ input_mode' \in {"CreatingDimension", "AddingTab", "DeletingDimension",
                              "DeletingTab", "Searching"}
    /\ (input_mode' # input_mode /\ input_mode' = "Normal") => (cancel_input \/ C36_Submit)
    /\ (input_mode # "Normal" /\ cancel_input) => input_mode' = "Normal"
    /\ (input_mode \in {"AddingTab", "DeletingDimension", "DeletingTab"} /\ C36_Submit) =>
          input_mode' = "Normal"
    /\ (input_mode = "CreatingDimensionDirectory" /\ submit_input /\ message' # "InvalidDir") =>
          input_mode' = "Normal"
    /\ (input_mode = "Searching" /\ input_mode' # "Searching") =>
          /\ input_mode' = "Normal"
          /\ cancel_input \/ (search_results # <<>> /\ select_search_result)

\* C36 (mode machine): the mode is Normal at the start. CreatingDimensionDirectory
\* is entered only from CreatingDimension by submitting a name that is not
\* blank; every other mode but Normal is entered only from Normal; Normal
\* is reached from another mode only by cancel or submit. Cancel leaves every
\* mode for Normal; submit leaves AddingTab, DeletingDimension and DeletingTab
\* for Normal, and CreatingDimensionDirectory unless the directory is refused;
\* Searching is left only for Normal, by cancel or by selecting a result.
C36_ModeMachine == input_mode = "Normal" /\ [][C36_Step]_vars

\* A result was selected in Searching mode: the mode is Normal again and the
\* switch has been recorded.
C36_Witness ==
    /\ input_mode = "Normal"
    /\ should_quit
    /\ should_attach # NoName
    /\ search_results = <<>>
    /\ input_buffer = "q"

\* ---------------------------------------------------------------- C38
\* Between key events in Searching mode the results are those computed for
\* the query: none for the empty query.
C38_ResultsOfQuery ==
    input_mode = "Searching" =>
        /\ (search_query = "" => search_results = <<>>)
        /\ (search_query # "" => last_computed_query = search_query)

\* Enter in Searching mode with the empty query selects nothing and switches
\* nowhere.
C38_Step ==
    (input_mode = "Searching" /\ search_query = "" /\ (submit_input \/ select_search_result)) =>
        UNCHANGED <<input_mode, appSel, appExit, tmux>>

\* C38: in Searching mode, when a key is handled, search_results is the
\* ranking computed for the current search_query, empty when the query is
\* empty, so that Enter with an empty query selects nothing and does not switch.
C38_ResultsCurrent == [](C38_ResultsOfQuery) /\ [][C38_Step]_vars

\* ---------------------------------------------------------------- C39
\* C39: after next_tab or previous_tab on a listed dimension, selected_tab is
\* "dimension selected" or a reference of the index space the dimension has
\* at that call: the index of a live window when its session exists, a
\* position among its configured tabs when it does not, whatever the session
\* was when selected_tab was set.
C39_Step ==
    (HasCurDim /\ (next_tab \/ previous_tab)) =>
        \/ selected_tab' = NoTab
        \/ IF SessionExists(tmux, CurDim.name)
           THEN selected_tab' \in WinIdxs(ListWindows(tmux, CurDim.name))
           ELSE selected_tab' \in 0..(Len(CurDim.configured_tabs) - 1)

C39_TabInIndexSpace == [][C39_Step]_vars

\* ------------------------------- navigation while tmux changes outside
\* One run in an environment that holds sessions already; somebody else may
\* close a window or a session while the selection moves.
InitOutside ==
    /\ InitStartedApp
    /\ failures = MaxFailures
    /\ externals = 0
    /\ runs = MaxRuns

NextOutside ==
    \/ next_dimension
    \/ previous_dimension
    \/ next_tab
    \/ previous_tab
    \/ ext_kill_window
    \/ ext_kill_session

SpecOutside == InitOutside /\ [][NextOutside]_vars

\* ---------------------------------------------------------------- C40
\* Between key events a name is staged exactly in CreatingDimensionDirectory.
C40_StagedInDirectoryMode ==
    (pending_dimension_name # NoName) <=> (input_mode = "CreatingDimensionDirectory")

C40_Step ==
    /\ (pending_dimension_name' # pending_dimension_name /\ pending_dimension_name' # NoName) =>
          /\ input_mode = "CreatingDimension"
          /\ submit_input
          /\ pending_dimension_name' = Trim(input_buffer)
    /\ (input_mode = "CreatingDimensionDirectory"
          /\ (handle_input_char \/ handle_input_backspace)) =>
          UNCHANGED <<pending_dimension_name, input_mode>>
    /\ (input_mode = "CreatingDimensionDirectory" /\ submit_input /\ message' = "InvalidDir") =>
          UNCHANGED <<pending_dimension_name, input_mode, config>>
    /\ (input_mode = "CreatingDimensionDirectory"
          /\ (cancel_input \/ (submit_input /\ message' # "InvalidDir"))) =>
          /\ pending_dimension_name' = NoName
          /\ input_mode' = "Normal"
    /\ (Len(config') > Len(config)) =>
          /\ input_mode = "CreatingDimensionDirectory"
          /\ config'[Len(config')].name = pending_dimension_name
          /\ pending_dimension_name' = NoName

\* C40 (staged name): between key events pending_dimension_name is set
\* exactly when the mode is CreatingDimensionDirectory. It is set only by
\* submitting a name that is not blank in CreatingDimension, is kept by edits
\* and by a directory that is refused, and is cleared by cancel and by a
\* creation, successful or failed; a dimension is created only from the name
\* staged, which is gone afterwards.
C40_StagedName == [](C40_StagedInDirectoryMode) /\ [][C40_Step]_vars

\* A creation failed on a name already listed: the mode is Normal, the error
\* is shown and no name is staged.
C40_Witness ==
    /\ input_mode = "Normal"
    /\ message = ErrorMessage("err_duplicate")
    /\ pending_dimension_name = NoName
    /\ Len(config) = 1
====
